---- MODULE Spec2Model ----
(***************************************************************************)
(* Voice-assistant call handling (agent.py = Variant A, agent1.py =       *)
(* Variant B): the transcript recorder, the audio recorders, the mixdown,  *)
(* the hangup tool, the shutdown callbacks and the event hooks, as a       *)
(* state machine of one call.                                              *)
(*                                                                         *)
(* Specifications:                                                         *)
(*   Spec        one call, from my_agent's entry to teardown (asyncio:     *)
(*               every handler runs atomically up to its next await)       *)
(*   SpecConv    ConversationRecorder driven by arbitrary API calls        *)
(*   SpecThread  LocalAudioRecorder with a producer thread in add_frame    *)
(*               and a second thread in stop, one step per statement       *)
(***************************************************************************)
EXTENDS Integers, Sequences, FiniteSets, TLC

\* ------------------------------------------------------------------ bounds
MaxEvents == 2
MaxFrames == 1
MaxInvocations == 2
MaxApiCalls == 5
MaxThreadFrames == 3
MaxRecCalls == 5
MaxMixLen == 2
MaxParticipants == 3

\* ------------------------------------------------------- program constants
DefaultSampleRate == 48000
NumChannels == 1
SampWidth == 2
NoRate == 0
Farewell == "Goodbye! Have a great day!"

VARIABLES
    cfg,              \* [variant, hasCtx, roomFake]: which entrypoint, get_job_context() # None, room name has the FAKE_ prefix
    phase,            \* position of my_agent
    ref,              \* the module-level recorder references: TRUE = set, FALSE = None
    conv,             \* the ConversationRecorder object
    aud,              \* the audio recorder objects, by the global that refers to them
    files,            \* the file system: path -> content, DOMAIN files = the paths that exist
    tool,             \* the hangup_call_tool coroutines
    shutdownCalls,    \* invocations of the shutdown callback so far
    tasks,            \* the capture tasks created by the track hooks
    log,              \* history: the events the hooks forwarded and what the teardowns did, in order
    now,              \* logical wall clock: advances at each handler that reads datetime.now()
    err,              \* an exception escaped a handler
    lock,             \* LocalAudioRecorder._lock: "free" or the thread that holds it
    thr,              \* SpecThread: position of the producer and of the stopping thread
    api,              \* SpecConv, SpecRec: API calls made so far
    mix,              \* SpecMix: the call of combine_audio_files and what it computed
    wx,               \* SpecWeather: the call of get_weather
    sip,              \* SpecSip: the run of sip_manager.py
    setup,            \* what my_agent has done so far, in the order of its statements
    nc,               \* the noise-cancellation profile selected for each participant, in order
    exp               \* SpecExport: the run of on_session_end

vars == <<cfg, phase, ref, conv, aud, files, tool, shutdownCalls, tasks,
          log, now, err, lock, thr, api, mix, wx, sip, setup, nc, exp>>

\* ------------------------------------------------------------ small helpers
RecNames == {"conversation_recorder", "audio_recorder", "user_audio_recorder",
             "agent_audio_recorder"}
AudNames == {"audio_recorder", "user_audio_recorder", "agent_audio_recorder"}
WriteOutcomes == {"ok", "fail_open", "fail_partial"}

\* one statement after the other: the value that `first` leaves is computed
\* once, and `next` works on it
Then(first, next(_)) == CHOOSE after \in {next(v) : v \in {first}} : TRUE

Max(a, b) == IF a >= b THEN a ELSE b
Min(a, b) == IF a <= b THEN a ELSE b

\* str.strip(): texts are sequences of characters
IsSpace(c) == c \in {" ", "\t", "\n"}

RECURSIVE lstrip(_)
lstrip(s) == IF s = <<>> THEN s
             ELSE IF IsSpace(Head(s)) THEN lstrip(Tail(s)) ELSE s

RECURSIVE rstrip(_)
rstrip(s) == IF s = <<>> THEN s
             ELSE IF IsSpace(s[Len(s)]) THEN rstrip(SubSeq(s, 1, Len(s) - 1)) ELSE s

strip(s) == rstrip(lstrip(s))

\* f"{recordings_dir}/{prefix}{timestamp}{ext}"
Path(prefix, ts, ext) == [prefix |-> prefix, ts |-> ts, ext |-> ext]

\* os.path.exists
Exists(fs, path) == path \in DOMAIN fs

\* open(path, 'w') / wave.open(path, 'wb') followed by the write: it succeeds,
\* fails before the file is created, or fails after (a truncated file is left)
WriteFile(fs, path, content, w) ==
    IF w = "fail_open" THEN fs
    ELSE [p \in DOMAIN fs \cup {path} |->
            IF p = path THEN (IF w = "ok" THEN content ELSE [kind |-> "partial"])
            ELSE fs[p]]

\* bytes(frame.data) / struct.pack('<h'): int16 samples as little-endian bytes
ToBytes(samples) ==
    [i \in 1..(2 * Len(samples)) |->
        LET u == samples[(i + 1) \div 2] % 65536
        IN IF i % 2 = 1 THEN u % 256 ELSE u \div 256]

\* struct.unpack('<{n}h', data) with n = len(data) // 2
FromBytes(bytes) ==
    [i \in 1..(Len(bytes) \div 2) |->
        LET u == bytes[2 * i - 1] + 256 * bytes[2 * i]
        IN IF u >= 32768 THEN u - 65536 ELSE u]

\* b''.join(frames)
RECURSIVE Join(_)
Join(frames) == IF frames = <<>> THEN <<>> ELSE Head(frames) \o Join(Tail(frames))

\* ------------------------------------------------- ConversationRecorder
ConversationRecorder_init(filepath, t) ==
    [filepath |-> filepath, transcript |-> <<>>, start_time |-> t, is_recording |-> FALSE]

\* mutant: start() keeps the messages of the previous recording
ConversationRecorder_start_keep(self, t) ==
    [self EXCEPT !.is_recording = TRUE, !.start_time = t]

ConversationRecorder_start(self, t) ==
    [self EXCEPT !.is_recording = TRUE, !.transcript = <<>>, !.start_time = t]

\* mutant: the text is not checked for being blank
add_user_message_noblank(self, text, language, t) ==
    IF self.is_recording
    THEN [self EXCEPT !.transcript = Append(@,
            [role |-> "user", text |-> text, timestamp |-> t, language |-> language])]
    ELSE self

add_user_message(self, text, language, t) ==
    IF self.is_recording /\ strip(text) # <<>>
    THEN [self EXCEPT !.transcript = Append(@,
            [role |-> "user", text |-> text, timestamp |-> t, language |-> language])]
    ELSE self

\* mutant: a message equal in text to the previous entry is dropped as a duplicate
add_agent_message_dedup(self, text, t) ==
    IF self.is_recording /\ strip(text) # <<>>
       /\ ~(self.transcript # <<>> /\ self.transcript[Len(self.transcript)].text = text)
    THEN [self EXCEPT !.transcript = Append(@,
            [role |-> "assistant", text |-> text, timestamp |-> t])]
    ELSE self

add_agent_message(self, text, t) ==
    IF self.is_recording /\ strip(text) # <<>>
    THEN [self EXCEPT !.transcript = Append(@,
            [role |-> "assistant", text |-> text, timestamp |-> t])]
    ELSE self

\* mutant: no try/except around the write, a failure leaves the method
ConversationRecorder_stop_raises(self, fs, w, t, who) ==
    LET s1 == [self EXCEPT !.is_recording = FALSE]
        recording_data == [kind |-> "json",
                           start_time |-> s1.start_time,
                           end_time |-> t,
                           duration_seconds |-> t - s1.start_time,
                           messages |-> s1.transcript]
    IN IF s1.transcript = <<>>
       THEN [self |-> s1, fs |-> fs, events |-> <<>>, raised |-> FALSE]
       ELSE [self |-> s1,
             fs |-> WriteFile(fs, s1.filepath, recording_data, w),
             events |-> <<[ev |-> "write", path |-> s1.filepath, outcome |-> w, by |-> who]>>,
             raised |-> (w # "ok")]

\* The result of a stop(): the object, the file system, the writes attempted
\* (history) and whether an exception left the method.
ConversationRecorder_stop(self, fs, w, t, who) ==
    LET s1 == [self EXCEPT !.is_recording = FALSE]
        recording_data == [kind |-> "json",
                           start_time |-> s1.start_time,
                           end_time |-> t,
                           duration_seconds |-> t - s1.start_time,
                           messages |-> s1.transcript]
    IN IF s1.transcript = <<>>
       THEN [self |-> s1, fs |-> fs, events |-> <<>>, raised |-> FALSE]
       ELSE [self |-> s1,
             fs |-> WriteFile(fs, s1.filepath, recording_data, w),
             events |-> <<[ev |-> "write", path |-> s1.filepath, outcome |-> w, by |-> who]>>,
             raised |-> FALSE]

\* ------------------------------------------ LocalAudioRecorder (Variant A)
LocalAudioRecorder_init(filepath, sample_rate, num_channels) ==
    [filepath |-> filepath, sample_rate |-> sample_rate, num_channels |-> num_channels,
     frames |-> <<>>, is_recording |-> FALSE]

LocalAudioRecorder_start(self) ==
    [self EXCEPT !.is_recording = TRUE, !.frames = <<>>]

\* mutant: the frame is put in front of the buffer
LocalAudioRecorder_add_frame_front(self, frame) ==
    IF self.is_recording /\ frame # [data |-> <<>>, sample_rate |-> NoRate]
    THEN [self EXCEPT !.frames = <<ToBytes(frame.data)>> \o @]
    ELSE self

\* add_frame run without interruption (one asyncio task, nobody else holds the lock)
LocalAudioRecorder_add_frame(self, frame) ==
    IF self.is_recording /\ frame # [data |-> <<>>, sample_rate |-> NoRate]
    THEN [self EXCEPT !.frames = Append(@, ToBytes(frame.data))]
    ELSE self

WavFile(self, audio_data) ==
    [kind |-> "wav", nchannels |-> self.num_channels, sampwidth |-> SampWidth,
     framerate |-> self.sample_rate, data |-> audio_data]

\* the body of stop() under the lock
LocalAudioRecorder_flush(self, fs, w, who) ==
    IF self.frames = <<>>
    THEN [self |-> self, fs |-> fs, events |-> <<>>, raised |-> FALSE]
    ELSE [self |-> self,
          fs |-> WriteFile(fs, self.filepath, WavFile(self, Join(self.frames)), w),
          events |-> <<[ev |-> "write", path |-> self.filepath, outcome |-> w, by |-> who]>>,
          raised |-> FALSE]

LocalAudioRecorder_stop(self, fs, w, who) ==
    LocalAudioRecorder_flush([self EXCEPT !.is_recording = FALSE], fs, w, who)

\* ------------------------------------------------ AudioRecorder (Variant B)
AudioRecorder_init(filepath, num_channels) ==
    [filepath |-> filepath, sample_rate |-> NoRate, num_channels |-> num_channels,
     frames |-> <<>>, is_recording |-> FALSE]

AudioRecorder_start(self) ==
    [self EXCEPT !.is_recording = TRUE, !.frames = <<>>, !.sample_rate = NoRate]

\* mutant: every frame sets the sample rate
AudioRecorder_add_frame_lastrate(self, frame) ==
    IF self.is_recording /\ frame # [data |-> <<>>, sample_rate |-> NoRate]
    THEN [self EXCEPT !.sample_rate = frame.sample_rate,
                      !.frames = Append(@, ToBytes(frame.data))]
    ELSE self

AudioRecorder_add_frame(self, frame) ==
    IF self.is_recording /\ frame # [data |-> <<>>, sample_rate |-> NoRate]
    THEN [self EXCEPT !.sample_rate = IF @ = NoRate THEN frame.sample_rate ELSE @,
                      !.frames = Append(@, ToBytes(frame.data))]
    ELSE self

AudioRecorder_stop(self, fs, w, who) ==
    LET s1 == [self EXCEPT !.is_recording = FALSE]
        s2 == [s1 EXCEPT !.sample_rate = IF @ = NoRate THEN DefaultSampleRate ELSE @]
    IN IF s1.frames = <<>>
       THEN [self |-> s1, fs |-> fs, events |-> <<>>, raised |-> FALSE]
       ELSE [self |-> s2,
             fs |-> WriteFile(fs, s2.filepath, WavFile(s2, Join(s2.frames)), w),
             events |-> <<[ev |-> "write", path |-> s2.filepath, outcome |-> w, by |-> who]>>,
             raised |-> FALSE]

\* --------------------------------------------- Python float (IEEE-754 double)
\* A natural number as its binary digits, least significant first, without
\* high zeros; a finite double as sign * m * 2^e with m of at most 53 bits.
\* Every operation computes the exact result and rounds it to nearest, ties to
\* even, as the hardware does. (The values of the mixdown are far from the
\* overflow and subnormal ranges.)
\* (The loops are split in halves so that their nesting stays shallow.)
Bit(b, i) == IF i <= Len(b) THEN b[i] ELSE 0

\* the highest position in lo..hi where a and b differ, 0 if none
RECURSIVE HighDiff(_, _, _, _)
HighDiff(a, b, lo, hi) ==
    IF lo > hi THEN 0
    ELSE IF lo = hi THEN (IF Bit(a, lo) # Bit(b, lo) THEN lo ELSE 0)
    ELSE LET mid == (lo + hi) \div 2
             h == HighDiff(a, b, mid + 1, hi)
         IN IF h # 0 THEN h ELSE HighDiff(a, b, lo, mid)

\* remove the high zeros
Trim(b) == SubSeq(b, 1, HighDiff(b, <<>>, 1, Len(b)))

\* the bits of n < 2^30
NatToBits(n) == Trim([i \in 1..30 |-> (n \div 2^(i - 1)) % 2])

\* the number with the bits lo..hi of b
RECURSIVE NatRange(_, _, _)
NatRange(b, lo, hi) ==
    IF lo > hi THEN 0
    ELSE IF lo = hi THEN b[lo] * 2^(lo - 1)
    ELSE LET mid == (lo + hi) \div 2
         IN NatRange(b, lo, mid) + NatRange(b, mid + 1, hi)

BitsToNat(b) == NatRange(b, 1, Len(b))

\* positions lo..hi of a + b + carry, and the carry out
RECURSIVE AddRange(_, _, _, _, _)
AddRange(a, b, lo, hi, carry) ==
    IF lo > hi THEN [s |-> <<>>, c |-> carry]
    ELSE IF lo = hi
    THEN LET t == Bit(a, lo) + Bit(b, lo) + carry
         IN [s |-> <<t % 2>>, c |-> t \div 2]
    ELSE LET mid == (lo + hi) \div 2
             l == AddRange(a, b, lo, mid, carry)
             h == AddRange(a, b, mid + 1, hi, l.c)
         IN [s |-> l.s \o h.s, c |-> h.c]

BitsAdd(a, b) ==
    LET r == AddRange(a, b, 1, Max(Len(a), Len(b)), 0)
    IN IF r.c = 1 THEN Append(r.s, 1) ELSE r.s

\* positions lo..hi of a - b - borrow, and the borrow out
RECURSIVE SubRange(_, _, _, _, _)
SubRange(a, b, lo, hi, borrow) ==
    IF lo > hi THEN [s |-> <<>>, c |-> borrow]
    ELSE IF lo = hi
    THEN LET t == Bit(a, lo) - Bit(b, lo) - borrow
         IN [s |-> <<t % 2>>, c |-> IF t < 0 THEN 1 ELSE 0]
    ELSE LET mid == (lo + hi) \div 2
             l == SubRange(a, b, lo, mid, borrow)
             h == SubRange(a, b, mid + 1, hi, l.c)
         IN [s |-> l.s \o h.s, c |-> h.c]

\* a - b for a >= b
BitsSub(a, b) == Trim(SubRange(a, b, 1, Len(a), 0).s)

BitsLess(a, b) ==
    LET h == HighDiff(a, b, 1, Max(Len(a), Len(b)))
    IN h # 0 /\ Bit(a, h) < Bit(b, h)

Shl(b, k) == IF b = <<>> THEN b ELSE [i \in 1..k |-> 0] \o b

\* a times the bits lo..hi of b
RECURSIVE MulRange(_, _, _, _)
MulRange(a, b, lo, hi) ==
    IF lo > hi THEN <<>>
    ELSE IF lo = hi THEN (IF b[lo] = 1 THEN Shl(a, lo - 1) ELSE <<>>)
    ELSE LET mid == (lo + hi) \div 2
         IN BitsAdd(MulRange(a, b, lo, mid), MulRange(a, b, mid + 1, hi))

BitsMul(a, b) == MulRange(a, b, 1, Len(b))

\* long division, one bit of n at a time from the top: st.k bits are left,
\* st.q is the quotient and st.r the remainder so far
BitsDivStep(n, d, st) ==
    LET r2 == Trim(<<n[st.k]>> \o st.r)
    IN IF BitsLess(r2, d) THEN [k |-> st.k - 1, q |-> <<0>> \o st.q, r |-> r2]
       ELSE [k |-> st.k - 1, q |-> <<1>> \o st.q, r |-> BitsSub(r2, d)]

RECURSIVE BitsDivSteps(_, _, _, _)
BitsDivSteps(n, d, st, count) ==
    IF count = 0 \/ st.k = 0 THEN st
    ELSE IF count = 1 THEN BitsDivStep(n, d, st)
    ELSE LET half == BitsDivSteps(n, d, st, count \div 2)
         IN IF half.k = 0 THEN half
            ELSE BitsDivSteps(n, d, half, count - count \div 2)

\* n divided by d # 0; the top Len(d) - 1 bits of n are less than d, so the
\* division starts with them as the remainder
BitsDivMod(n, d) ==
    LET skip == Min(Len(n), Len(d) - 1)
        st == BitsDivSteps(n, d, [k |-> Len(n) - skip, q |-> <<>>,
                                  r |-> Trim(SubSeq(n, Len(n) - skip + 1, Len(n)))],
                           Len(n) - skip)
    IN [q |-> Trim(st.q), r |-> st.r]

MantissaBits == 53

\* round sign * (m + s) * 2^e to a double, where 0 < s < 1 if sticky, else s = 0
FRound(sign, m, e, sticky) ==
    IF Len(m) <= MantissaBits THEN [sign |-> sign, m |-> m, e |-> e]
    ELSE LET d == Len(m) - MantissaBits
             kept == SubSeq(m, d + 1, Len(m))
             st == sticky \/ \E i \in 1..(d - 1) : m[i] = 1
             up == m[d] = 1 /\ (st \/ kept[1] = 1)
         IN [sign |-> sign,
             m |-> IF up THEN BitsAdd(kept, <<1>>) ELSE kept,
             e |-> e + d]

\* float(n)
FromInt(n) == [sign |-> IF n < 0 THEN -1 ELSE 1,
               m |-> NatToBits(IF n < 0 THEN -n ELSE n), e |-> 0]

\* a / b
FDiv(a, b) ==
    IF a.m = <<>> THEN FromInt(0)
    ELSE LET k == Max(0, MantissaBits + 2 + Len(b.m) - Len(a.m))
             qr == BitsDivMod(Shl(a.m, k), b.m)
         IN FRound(a.sign * b.sign, qr.q, a.e - b.e - k, qr.r # <<>>)

\* a * b
FMul(a, b) ==
    FRound(a.sign * b.sign,
           IF Len(a.m) >= Len(b.m) THEN BitsMul(a.m, b.m) ELSE BitsMul(b.m, a.m),
           a.e + b.e, FALSE)

\* a + b
FAdd(a, b) ==
    LET e == Min(a.e, b.e)
        x == Shl(a.m, a.e - e)
        y == Shl(b.m, b.e - e)
    IN IF a.sign = b.sign THEN FRound(a.sign, BitsAdd(x, y), e, FALSE)
       ELSE IF BitsLess(x, y) THEN FRound(b.sign, BitsSub(y, x), e, FALSE)
       ELSE FRound(a.sign, BitsSub(x, y), e, FALSE)

\* a - b
FSub(a, b) == FAdd(a, [b EXCEPT !.sign = -b.sign])

\* int(a): truncation toward zero
FTrunc(a) ==
    a.sign * BitsToNat(IF a.e >= 0 THEN Shl(a.m, a.e)
                       ELSE SubSeq(a.m, 1 - a.e, Len(a.m)))

\* ------------------------------------------------------ combine_audio_files
\* the nested resample(): ratio, new_length, src_idx and frac are floats.
\* (Each local of the source is a parameter here: the value is written once.)
\* int(samples[idx] * (1 - frac) + samples[idx + 1] * frac)
interpolated(s0, s1, frac) ==
    FTrunc(FAdd(FMul(FromInt(s0), FSub(FromInt(1), frac)), FMul(FromInt(s1), frac)))

\* the body of the loop, after idx = int(src_idx)
resampled_at(samples, src_idx, idx) ==
    IF idx >= Len(samples) - 1 THEN samples[Len(samples)]
    ELSE interpolated(samples[idx + 1], samples[idx + 2], FSub(src_idx, FromInt(idx)))

\* the body of the loop, after src_idx = i / ratio
resampled(samples, src_idx) == resampled_at(samples, src_idx, FTrunc(src_idx))

\* the loop, after ratio = to_rate / from_rate
resample_by(samples, ratio) ==
    [k \in 1..FTrunc(FMul(FromInt(Len(samples)), ratio)) |->
        resampled(samples, FDiv(FromInt(k - 1), ratio))]

resample(samples, from_rate, to_rate) ==
    IF from_rate = to_rate THEN samples
    ELSE resample_by(samples, FDiv(FromInt(to_rate), FromInt(from_rate)))

Pad(samples, max_length) ==
    samples \o [i \in 1..(max_length - Len(samples)) |-> 0]

\* mutant: the average is truncated toward zero
Mix_trunc(u, a) ==
    Max(-32768, Min(32767, IF u + a >= 0 THEN (u + a) \div 2 ELSE -((-(u + a)) \div 2)))

Mix(u, a) == Max(-32768, Min(32767, (u + a) \div 2))

\* the try block of combine_audio_files from the padding on, given the two
\* resampled lists: mix, write, `return True`
mix_and_write(fs, output_path, w, target_sample_rate, usr, agt, max_length) ==
    [fs |-> WriteFile(fs, output_path,
                      [kind |-> "wav", nchannels |-> 1, sampwidth |-> 2,
                       framerate |-> target_sample_rate,
                       data |-> ToBytes([i \in 1..max_length |->
                                           Mix(Pad(usr, max_length)[i],
                                               Pad(agt, max_length)[i])])],
                      w),
     done |-> (w = "ok"),
     user_samples |-> IF w = "ok" THEN Pad(usr, max_length) ELSE <<>>,
     agent_samples |-> IF w = "ok" THEN Pad(agt, max_length) ELSE <<>>]

\* the try block of combine_audio_files from the resampling on
resample_and_mix(fs, output_path, w, target_sample_rate, user_samples, agent_samples) ==
    mix_and_write(fs, output_path, w, target_sample_rate, user_samples, agent_samples,
                  Max(Len(user_samples), Len(agent_samples)))

\* the try block of combine_audio_files: the file system it leaves, whether it
\* reached `return True` (an exception ended it otherwise), and its two sample
\* lists after the padding
combine_try(fs, user_audio_path, agent_audio_path, output_path, w) ==
    IF ~(Exists(fs, user_audio_path) /\ fs[user_audio_path].kind = "wav"
         /\ Exists(fs, agent_audio_path) /\ fs[agent_audio_path].kind = "wav")
    THEN [fs |-> fs, done |-> FALSE, user_samples |-> <<>>, agent_samples |-> <<>>]
    ELSE LET user == fs[user_audio_path]
             agent == fs[agent_audio_path]
             target_sample_rate == Max(user.framerate, agent.framerate)
         IN Then(resample(FromBytes(user.data), user.framerate, target_sample_rate),
                 LAMBDA user_samples :
                    Then(resample(FromBytes(agent.data), agent.framerate, target_sample_rate),
                         LAMBDA agent_samples :
                            resample_and_mix(fs, output_path, w, target_sample_rate,
                                             user_samples, agent_samples)))

\* how the try block ends for the caller: with `except Exception` every failure
\* becomes `return False`; without it the exception leaves the function
combine_end(r, caught) ==
    [fs |-> r.fs, ok |-> r.done, raised |-> ~caught /\ ~r.done,
     user_samples |-> r.user_samples, agent_samples |-> r.agent_samples]

\* mutant: no try/except, the exception leaves the function
combine_audio_files_raises(fs, user_audio_path, agent_audio_path, output_path, w) ==
    Then(combine_try(fs, user_audio_path, agent_audio_path, output_path, w),
         LAMBDA r : combine_end(r, FALSE))

\* the result of combine_audio_files: the file system, the value returned and
\* whether an exception left it
combine_audio_files(fs, user_audio_path, agent_audio_path, output_path, w) ==
    Then(combine_try(fs, user_audio_path, agent_audio_path, output_path, w),
         LAMBDA r : combine_end(r, TRUE))

\* --------------------------------------------------------- the call: inputs
Texts == {<<>>, <<" ">>, <<" ", "a">>}

\* user_input_transcribed events
UserEvents ==
    {[is_final |-> TRUE, transcript |-> <<" ", "a">>, language |-> "fr"],
     [is_final |-> FALSE, transcript |-> <<" ", "a">>, language |-> "fr"]}

\* conversation_item_added events (item.role, item.text_content)
ItemEvents ==
    {[role |-> "assistant", text_content |-> <<" ", "a">>],
     [role |-> "assistant", text_content |-> <<>>],
     [role |-> "user", text_content |-> <<" ", "a">>]}

\* rtc.AudioFrame: int16 samples and the rate of the track
Frames == {[data |-> <<-2, 3>>, sample_rate |-> 16000]}

TrackKinds == {"KIND_AUDIO", "KIND_VIDEO"}
ToolIds == 1..MaxInvocations

\* which writes a teardown of this variant can attempt
WKeys(variant) ==
    IF variant = "A" THEN {"conversation_recorder", "audio_recorder"}
    ELSE {"conversation_recorder", "user_audio_recorder", "agent_audio_recorder", "combined"}

\* the outcomes to choose for the writes of one teardown: a write that cannot
\* be attempted (reference cleared, nothing recorded) has no outcome to choose
Attempted(k) ==
    IF k = "conversation_recorder" THEN ref[k] /\ conv.transcript # <<>>
    ELSE IF k = "combined"
    THEN /\ ref["user_audio_recorder"] /\ aud["user_audio_recorder"].frames # <<>>
         /\ ref["agent_audio_recorder"] /\ aud["agent_audio_recorder"].frames # <<>>
    ELSE ref[k] /\ aud[k].frames # <<>>

\* (a truncated file matters only where the file is read back: the two WAV inputs
\* of the mixdown)
OutcomesOf(k) ==
    IF ~Attempted(k) THEN {"ok"}
    ELSE IF k \in {"conversation_recorder", "combined"} THEN {"ok", "fail_open"}
    ELSE WriteOutcomes

Outcomes(variant) ==
    IF variant = "A"
    THEN {[conversation_recorder |-> c, audio_recorder |-> a] :
             c \in OutcomesOf("conversation_recorder"), a \in OutcomesOf("audio_recorder")}
    ELSE {[conversation_recorder |-> c, user_audio_recorder |-> u,
           agent_audio_recorder |-> a, combined |-> x] :
             c \in OutcomesOf("conversation_recorder"), u \in OutcomesOf("user_audio_recorder"),
             a \in OutcomesOf("agent_audio_recorder"), x \in OutcomesOf("combined")}

\* a global that was never assigned: the object slot holds an unstarted recorder
NoPath == Path("", 0, "")
NoConv == ConversationRecorder_init(NoPath, 0)
NoAudio == AudioRecorder_init(NoPath, NumChannels)

\* str.replace(old, new) on a path
Replace(path, old, new) == IF path.prefix = old THEN [path EXCEPT !.prefix = new] ELSE path

\* ------------------------------------------- teardown, statement by statement
\* m is the state a handler works on: the globals, the objects, the files, the
\* history, its local path variables and whether an exception is propagating.
Machine ==
    [ref |-> ref, conv |-> conv, aud |-> aud, files |-> files, log |-> log,
     paths |-> {}, raised |-> FALSE]

\* mutant: the reference is not cleared after stop()
StopConversation_keepref(m, w, t, who) ==
    IF m.raised \/ ~m.ref["conversation_recorder"] THEN m
    ELSE LET r == ConversationRecorder_stop(m.conv, m.files, w["conversation_recorder"], t, who)
         IN [m EXCEPT !.conv = r.self,
                      !.files = r.fs,
                      !.log = @ \o <<[ev |-> "stop", rec |-> "conversation_recorder", by |-> who]>>
                                \o r.events,
                      !.raised = r.raised]

\* if conversation_recorder: conversation_recorder.stop(); conversation_recorder = None
StopConversation(m, w, t, who) ==
    IF m.raised \/ ~m.ref["conversation_recorder"] THEN m
    ELSE LET r == ConversationRecorder_stop(m.conv, m.files, w["conversation_recorder"], t, who)
         IN [m EXCEPT !.conv = r.self,
                      !.files = r.fs,
                      !.log = @ \o <<[ev |-> "stop", rec |-> "conversation_recorder", by |-> who]>>
                                \o r.events,
                      !.raised = r.raised,
                      !.ref = IF r.raised THEN @ ELSE [@ EXCEPT !["conversation_recorder"] = FALSE]]

\* mutant: the audio recorder is stopped but stays referenced
StopAudio_keepref(m, name, w, who) ==
    IF m.raised \/ ~m.ref[name] THEN m
    ELSE LET r == IF name = "audio_recorder"
                  THEN LocalAudioRecorder_stop(m.aud[name], m.files, w[name], who)
                  ELSE AudioRecorder_stop(m.aud[name], m.files, w[name], who)
         IN [m EXCEPT !.aud = [@ EXCEPT ![name] = r.self],
                      !.files = r.fs,
                      !.paths = @ \cup {name},
                      !.log = @ \o <<[ev |-> "stop", rec |-> name, by |-> who]>> \o r.events,
                      !.raised = r.raised]

\* if <name>: path = <name>.filepath; <name>.stop(); <name> = None
StopAudio(m, name, w, who) ==
    IF m.raised \/ ~m.ref[name] THEN m
    ELSE LET r == IF name = "audio_recorder"
                  THEN LocalAudioRecorder_stop(m.aud[name], m.files, w[name], who)
                  ELSE AudioRecorder_stop(m.aud[name], m.files, w[name], who)
         IN [m EXCEPT !.aud = [@ EXCEPT ![name] = r.self],
                      !.files = r.fs,
                      !.paths = @ \cup {name},
                      !.log = @ \o <<[ev |-> "stop", rec |-> name, by |-> who]>> \o r.events,
                      !.raised = r.raised,
                      !.ref = IF r.raised THEN @ ELSE [@ EXCEPT ![name] = FALSE]]

\* the machine after combine_audio_files returned r for combined_path
Combined(m, combined_path, who, r) ==
    [m EXCEPT !.files = r.fs,
              !.log = Append(@, [ev |-> "combine", path |-> combined_path,
                                 ok |-> r.ok, by |-> who])]

\* mutant: no os.path.exists check before the mixdown
CombineStep_nocheck(m, w, who) ==
    IF m.raised THEN m
    ELSE IF ~({"user_audio_recorder", "agent_audio_recorder"} \subseteq m.paths) THEN m
    ELSE LET user_audio_path == m.aud["user_audio_recorder"].filepath
             agent_audio_path == m.aud["agent_audio_recorder"].filepath
             combined_path == Replace(user_audio_path, "user_audio_", "call_recording_")
         IN Then(combine_audio_files(m.files, user_audio_path, agent_audio_path,
                                     combined_path, w["combined"]),
                 LAMBDA r : Combined(m, combined_path, who, r))

\* if user_audio_path and agent_audio_path: if both exist: combine_audio_files(...)
CombineStep(m, w, who) ==
    IF m.raised THEN m
    ELSE IF ~({"user_audio_recorder", "agent_audio_recorder"} \subseteq m.paths) THEN m
    ELSE LET user_audio_path == m.aud["user_audio_recorder"].filepath
             agent_audio_path == m.aud["agent_audio_recorder"].filepath
             combined_path == Replace(user_audio_path, "user_audio_", "call_recording_")
         IN IF ~(Exists(m.files, user_audio_path) /\ Exists(m.files, agent_audio_path)) THEN m
            ELSE Then(combine_audio_files(m.files, user_audio_path, agent_audio_path,
                                          combined_path, w["combined"]),
                      LAMBDA r : Combined(m, combined_path, who, r))

\* mutant: no `if ctx is None` check, so None.shutdown() raises AttributeError
ShutdownStep_nocheck(m, hasCtx, who) ==
    IF m.raised THEN m
    ELSE IF ~hasCtx THEN [m EXCEPT !.raised = TRUE]
    ELSE [m EXCEPT !.log = Append(@, [ev |-> "shutdown", by |-> who])]

\* mutant: hangup_call returns after the recorders without ctx.shutdown()
ShutdownStep_skipped(m, hasCtx, who) == m

\* if ctx is None: return;  result = ctx.shutdown()
ShutdownStep(m, hasCtx, who) ==
    IF m.raised THEN m
    ELSE IF ~hasCtx THEN m
    ELSE [m EXCEPT !.log = Append(@, [ev |-> "shutdown", by |-> who])]

\* agent.py hangup_call
hangup_call_A(m, w, t, hasCtx, who) ==
    Then(Then(StopConversation(m, w, t, who),
              LAMBDA m1 : StopAudio(m1, "audio_recorder", w, who)),
         LAMBDA m2 : ShutdownStep(m2, hasCtx, who))

\* mutant: the job shutdown is requested before the recorders are stopped
hangup_call_B_shutdown_first(m, w, t, hasCtx, who) ==
    Then(Then(Then(Then(ShutdownStep(m, hasCtx, who),
                        LAMBDA m1 : StopConversation(m1, w, t, who)),
                   LAMBDA m2 : StopAudio(m2, "user_audio_recorder", w, who)),
              LAMBDA m3 : StopAudio(m3, "agent_audio_recorder", w, who)),
         LAMBDA m4 : CombineStep(m4, w, who))

\* agent1.py hangup_call
hangup_call_B(m, w, t, hasCtx, who) ==
    Then(Then(Then(Then(StopConversation(m, w, t, who),
                        LAMBDA m1 : StopAudio(m1, "user_audio_recorder", w, who)),
                   LAMBDA m2 : StopAudio(m2, "agent_audio_recorder", w, who)),
              LAMBDA m3 : CombineStep(m3, w, who)),
         LAMBDA m4 : ShutdownStep(m4, hasCtx, who))

\* agent.py on_shutdown
on_shutdown(m, w, t, who) ==
    Then(StopConversation(m, w, t, who),
         LAMBDA m1 : StopAudio(m1, "audio_recorder", w, who))

\* agent1.py stop_recording
stop_recording(m, w, t, who) ==
    Then(Then(Then(StopConversation(m, w, t, who),
                   LAMBDA m1 : StopAudio(m1, "user_audio_recorder", w, who)),
              LAMBDA m2 : StopAudio(m2, "agent_audio_recorder", w, who)),
         LAMBDA m3 : CombineStep(m3, w, who))

\* ------------------------------------------------------------ the call: Init
Configs ==
    [variant : {"A"}, hasCtx : BOOLEAN, roomFake : {FALSE}]
    \cup [variant : {"B"}, hasCtx : BOOLEAN, roomFake : BOOLEAN]

IdleTool == [pc |-> "idle", said |-> <<>>, waited |-> FALSE]
NoFrame == [data |-> <<>>, sample_rate |-> NoRate]
IdleThreads == [producer |-> "idle", stopper |-> "idle", delivered |-> 0, frame |-> NoFrame]

\* variables the call does not use
otherVars == <<lock, thr, api, mix, wx, sip, nc, exp>>

\* nothing is running in the mixdown, the weather tool and the SIP manager
Idle == [pc |-> "idle"]
InitIdleTools ==
    /\ mix = Idle
    /\ wx = Idle
    /\ sip = Idle

InitObjects ==
    /\ ref = [n \in RecNames |-> FALSE]
    /\ conv = NoConv
    /\ aud = [n \in AudNames |-> NoAudio]
    /\ files = <<>>
    /\ log = <<>>
    /\ now = 1
    /\ err = FALSE

Init ==
    /\ cfg \in Configs
    /\ phase = "INIT"
    /\ setup = <<>>
    /\ nc = <<>>
    /\ exp = Idle
    /\ InitObjects
    /\ tool = [t \in ToolIds |-> IdleTool]
    /\ shutdownCalls = 0
    /\ tasks = {}
    /\ lock = "free"
    /\ thr = IdleThreads
    /\ api = 0
    /\ InitIdleTools

HookEvents == {"user_input_transcribed", "conversation_item_added"}
IsHookEvent(e) == e.ev \in HookEvents
NumEvents == Len(SelectSeq(log, IsHookEvent))

\* --------------------------------------------------------- my_agent (entry)
\* the statements of agent.py my_agent up to and including the call of
\* session.start, in their order
entry_A ==
    <<"conversation_recorder.start", "audio_recorder.start",
      "room.on track_subscribed", "add_shutdown_callback",
      "session.on user_input_transcribed", "session.on conversation_item_added",
      "session.start">>

\* mutant: the session is started before the hooks are registered
entry_B_session_first ==
    <<"start_recording", "session.start", "add_shutdown_callback",
      "room.on track_subscribed", "room.on local_track_published",
      "session.on user_input_transcribed", "session.on conversation_item_added">>

\* the statements of agent1.py my_agent up to and including the call of
\* session.start, in their order
entry_B ==
    <<"start_recording", "add_shutdown_callback",
      "room.on track_subscribed", "room.on local_track_published",
      "session.on user_input_transcribed", "session.on conversation_item_added",
      "session.start">>

\* a handler the platform can call: it has been registered
Registered(h) == \E i \in DOMAIN setup : setup[i] = h

\* agent.py my_agent up to `await session.start`: recorders created and started,
\* track hook, shutdown callback and session hooks registered
my_agent_A ==
    /\ cfg.variant = "A"
    /\ phase = "INIT"
    /\ conv' = ConversationRecorder_start(
                 ConversationRecorder_init(Path("transcript_", now, ".json"), now), now)
    /\ aud' = [aud EXCEPT !["audio_recorder"] =
                 LocalAudioRecorder_start(
                   LocalAudioRecorder_init(Path("audio_", now, ".wav"), DefaultSampleRate, NumChannels))]
    /\ ref' = [ref EXCEPT !["conversation_recorder"] = TRUE, !["audio_recorder"] = TRUE]
    /\ phase' = "RECORDING_STARTED"
    /\ now' = now + 1
    /\ setup' = entry_A
    /\ UNCHANGED <<cfg, files, tool, shutdownCalls, tasks, log, err, otherVars>>

\* mutant: the per-party audio recorders are created in console mode as well
start_recording_always_audio(room_fake, has_ctx, t) ==
    [conv |-> ConversationRecorder_start(
                ConversationRecorder_init(Path("transcript_", t, ".json"), t), t),
     aud |-> [aud EXCEPT
                !["user_audio_recorder"] =
                    AudioRecorder_start(AudioRecorder_init(Path("user_audio_", t, ".wav"), NumChannels)),
                !["agent_audio_recorder"] =
                    AudioRecorder_start(AudioRecorder_init(Path("agent_audio_", t, ".wav"), NumChannels))],
     ref |-> [ref EXCEPT !["conversation_recorder"] = TRUE,
                         !["user_audio_recorder"] = TRUE,
                         !["agent_audio_recorder"] = TRUE]]

\* agent1.py start_recording(room_name)
start_recording(room_fake, has_ctx, t) ==
    LET c == ConversationRecorder_start(
               ConversationRecorder_init(Path("transcript_", t, ".json"), t), t)
        is_console_mode == ~has_ctx \/ room_fake
    IN IF is_console_mode
       THEN [conv |-> c, aud |-> aud,
             ref |-> [ref EXCEPT !["conversation_recorder"] = TRUE]]
       ELSE [conv |-> c,
             aud |-> [aud EXCEPT
                        !["user_audio_recorder"] =
                            AudioRecorder_start(AudioRecorder_init(Path("user_audio_", t, ".wav"), NumChannels)),
                        !["agent_audio_recorder"] =
                            AudioRecorder_start(AudioRecorder_init(Path("agent_audio_", t, ".wav"), NumChannels))],
             ref |-> [ref EXCEPT !["conversation_recorder"] = TRUE,
                                 !["user_audio_recorder"] = TRUE,
                                 !["agent_audio_recorder"] = TRUE]]

\* agent1.py my_agent up to `await session.start`
my_agent_B ==
    /\ cfg.variant = "B"
    /\ phase = "INIT"
    /\ LET r == start_recording(cfg.roomFake, cfg.hasCtx, now)
       IN /\ conv' = r.conv
          /\ aud' = r.aud
          /\ ref' = r.ref
    /\ phase' = "RECORDING_STARTED"
    /\ now' = now + 1
    /\ setup' = entry_B
    /\ UNCHANGED <<cfg, files, tool, shutdownCalls, tasks, log, err, otherVars>>

\* my_agent is suspended in an await, so other handlers of the event loop can run:
\* there is no await between session.start returning and generate_reply
Running == phase \in {"RECORDING_STARTED", "ACTIVE"}

\* `await session.start(...)` returns
session_start ==
    /\ phase = "RECORDING_STARTED"
    /\ phase' = "SESSION_STARTED"
    /\ UNCHANGED <<cfg, ref, conv, aud, files, tool, shutdownCalls, tasks,
                   log, now, err, setup, otherVars>>

\* `await session.generate_reply(instructions="Greet the user ...")`
generate_reply ==
    /\ phase = "SESSION_STARTED"
    /\ phase' = "ACTIVE"
    /\ setup' = Append(setup, "session.generate_reply")
    /\ UNCHANGED <<cfg, ref, conv, aud, files, tool, shutdownCalls, tasks,
                   log, now, err, otherVars>>

\* ------------------------------------------------------------ event hooks
\* mutant: interim transcriptions are forwarded as well
on_user_transcribed_interim(event) ==
    /\ Running
    /\ Registered("session.on user_input_transcribed")
    /\ NumEvents < MaxEvents
    /\ IF ref["conversation_recorder"]
       THEN /\ conv' = add_user_message(conv, event.transcript, event.language, now)
            /\ log' = Append(log, [ev |-> "user_input_transcribed", event |-> event, t |-> now])
            /\ now' = now + 1
       ELSE UNCHANGED <<conv, log, now>>
    /\ UNCHANGED <<cfg, phase, ref, aud, files, tool, shutdownCalls, tasks,
                   err, setup, otherVars>>

on_user_transcribed(event) ==
    /\ Running
    /\ Registered("session.on user_input_transcribed")
    /\ NumEvents < MaxEvents
    /\ IF ref["conversation_recorder"] /\ event.is_final
       THEN /\ conv' = add_user_message(conv, event.transcript, event.language, now)
            /\ log' = Append(log, [ev |-> "user_input_transcribed", event |-> event, t |-> now])
            /\ now' = now + 1
       ELSE UNCHANGED <<conv, log, now>>
    /\ UNCHANGED <<cfg, phase, ref, aud, files, tool, shutdownCalls, tasks,
                   err, setup, otherVars>>

on_conversation_item(event) ==
    /\ Running
    /\ Registered("session.on conversation_item_added")
    /\ NumEvents < MaxEvents
    /\ IF ref["conversation_recorder"] /\ event.role = "assistant" /\ event.text_content # <<>>
       THEN /\ conv' = add_agent_message(conv, event.text_content, now)
            /\ log' = Append(log, [ev |-> "conversation_item_added", event |-> event, t |-> now])
            /\ now' = now + 1
       ELSE UNCHANGED <<conv, log, now>>
    /\ UNCHANGED <<cfg, phase, ref, aud, files, tool, shutdownCalls, tasks,
                   err, setup, otherVars>>

\* track_subscribed: Variant A starts capture_audio for every audio track,
\* Variant B starts capture_user_audio_frames only while user_audio_recorder is set
on_track_subscribed(kind) ==
    /\ Running
    /\ Registered("room.on track_subscribed")
    /\ tasks' = IF kind = "KIND_AUDIO" /\ cfg.variant = "A" THEN tasks \cup {"audio_recorder"}
                ELSE IF kind = "KIND_AUDIO" /\ cfg.variant = "B" /\ ref["user_audio_recorder"]
                THEN tasks \cup {"user_audio_recorder"}
                ELSE tasks
    /\ tasks' # tasks
    /\ UNCHANGED <<cfg, phase, ref, conv, aud, files, tool, shutdownCalls,
                   log, now, err, setup, otherVars>>

\* local_track_published (Variant B only)
on_local_track_published(kind) ==
    /\ Running
    /\ Registered("room.on local_track_published")
    /\ cfg.variant = "B"
    /\ tasks' = IF kind = "KIND_AUDIO" /\ ref["agent_audio_recorder"]
                THEN tasks \cup {"agent_audio_recorder"}
                ELSE tasks
    /\ tasks' # tasks
    /\ UNCHANGED <<cfg, phase, ref, conv, aud, files, tool, shutdownCalls,
                   log, now, err, setup, otherVars>>

\* mutant: the capture task appends to the recorder object it was started
\* with, whatever the global and the active flag say
capture_audio_unguarded(name, frame) ==
    [aud EXCEPT ![name].frames = Append(@, ToBytes(frame.data))]

\* if <name> and <name>.is_recording: <name>.add_frame(event.frame)
\* (capture_audio, capture_user_audio_frames, capture_agent_audio_frames)
capture_audio(name, frame) ==
    IF ref[name] /\ aud[name].is_recording
    THEN [aud EXCEPT ![name] = IF name = "audio_recorder"
                               THEN LocalAudioRecorder_add_frame(@, frame)
                               ELSE AudioRecorder_add_frame(@, frame)]
    ELSE aud

\* one iteration of a capture task's `async for event in stream`
capture_frame(name, frame) ==
    /\ Running
    /\ name \in tasks
    /\ (ref[name] /\ aud[name].is_recording) => Len(aud[name].frames) < MaxFrames
    /\ aud' = capture_audio(name, frame)
    /\ UNCHANGED <<cfg, phase, ref, conv, files, tool, shutdownCalls, tasks,
                   log, now, err, setup, otherVars>>

\* ------------------------------------------------------- hangup_call_tool
ToolId(t) == [kind |-> "tool", id |-> t]
CallbackId(k) == [kind |-> "shutdown", id |-> k]

\* teardown entry points invoked so far: tool calls started and shutdown callbacks run
Invocations == Cardinality({t \in ToolIds : tool[t].pc # "idle"}) + shutdownCalls

\* await self.session.say("Goodbye! Have a great day!", allow_interruptions=False)
tool_say(t) ==
    /\ phase = "ACTIVE"
    /\ tool[t].pc = "idle"
    /\ \A u \in ToolIds : u < t => tool[u].pc # "idle"   \* invocations are numbered as they start
    /\ Invocations < MaxInvocations
    /\ tool' = [tool EXCEPT ![t].pc = "said",
                            ![t].said = Append(@, [text |-> Farewell,
                                                   allow_interruptions |-> FALSE])]
    /\ UNCHANGED <<cfg, phase, ref, conv, aud, files, shutdownCalls, tasks,
                   log, now, err, setup, otherVars>>

\* await context.wait_for_playout()
tool_wait_for_playout(t) ==
    /\ Running
    /\ tool[t].pc = "said"
    /\ tool' = [tool EXCEPT ![t].pc = "played", ![t].waited = TRUE]
    /\ UNCHANGED <<cfg, phase, ref, conv, aud, files, shutdownCalls, tasks,
                   log, now, err, setup, otherVars>>

\* await hangup_call(): everything up to the await of ctx.shutdown()'s result
tool_hangup_from(t, pc) ==
    /\ Running
    /\ tool[t].pc = pc
    /\ now' = now + 1
    /\ UNCHANGED <<cfg, phase, shutdownCalls, tasks, setup, otherVars>>
    /\ \E w \in Outcomes(cfg.variant) :
         \E m \in {IF cfg.variant = "A"
                    THEN hangup_call_A(Machine, w, now, cfg.hasCtx, ToolId(t))
                    ELSE hangup_call_B(Machine, w, now, cfg.hasCtx, ToolId(t))} :
            /\ ref' = m.ref
            /\ conv' = m.conv
            /\ aud' = m.aud
            /\ files' = m.files
            /\ log' = m.log
            /\ err' = (err \/ m.raised)
            /\ tool' = [tool EXCEPT ![t].pc = IF m.raised THEN "failed"
                                              ELSE IF cfg.hasCtx THEN "awaiting"
                                              ELSE "done"]

tool_hangup_early(t) == tool_hangup_from(t, "said")

tool_hangup(t) == tool_hangup_from(t, "played")

\* `await result` returns: the tool coroutine ends
tool_return(t) ==
    /\ Running
    /\ tool[t].pc = "awaiting"
    /\ tool' = [tool EXCEPT ![t].pc = "done"]
    /\ UNCHANGED <<cfg, phase, ref, conv, aud, files, shutdownCalls, tasks,
                   log, now, err, setup, otherVars>>

\* ------------------------------------------------------ shutdown callbacks
\* the job runs the callback registered with ctx.add_shutdown_callback
shutdown_callback ==
    /\ Running
    /\ Registered("add_shutdown_callback")
    /\ Invocations < MaxInvocations
    /\ shutdownCalls' = shutdownCalls + 1
    /\ \E w \in Outcomes(cfg.variant) :
         \E m \in {IF cfg.variant = "A"
                    THEN on_shutdown(Machine, w, now, CallbackId(shutdownCalls + 1))
                    ELSE stop_recording(Machine, w, now, CallbackId(shutdownCalls + 1))} :
            /\ ref' = m.ref
            /\ conv' = m.conv
            /\ aud' = m.aud
            /\ files' = m.files
            /\ log' = m.log
            /\ err' = (err \/ m.raised)
    /\ now' = now + 1
    /\ UNCHANGED <<cfg, phase, tool, tasks, setup, otherVars>>

Next ==
    \/ my_agent_A
    \/ my_agent_B
    \/ session_start
    \/ generate_reply
    \/ \E e \in UserEvents : on_user_transcribed(e)
    \/ \E e \in ItemEvents : on_conversation_item(e)
    \/ \E k \in TrackKinds : on_track_subscribed(k)
    \/ \E k \in TrackKinds : on_local_track_published(k)
    \/ \E n \in AudNames, f \in Frames : capture_frame(n, f)
    \/ \E t \in ToolIds : tool_say(t)
    \/ \E t \in ToolIds : tool_wait_for_playout(t)
    \/ \E t \in ToolIds : tool_hangup(t)
    \/ \E t \in ToolIds : tool_return(t)
    \/ shutdown_callback

Spec == Init /\ [][Next]_vars

\* ===================== ConversationRecorder driven through its API (SpecConv)
\* arguments of add_user_message: a text with its language ("en" is the default)
UserArgs == {[text |-> <<" ", "a">>, language |-> "en"],
             [text |-> <<" ", "a">>, language |-> "fr"],
             [text |-> <<" ">>, language |-> "en"]}
HarnessId == [kind |-> "api", id |-> 0]

\* the call's variables, unused by the harnesses
idleCall == <<cfg, phase, ref, tool, shutdownCalls, tasks, err, mix, wx, sip,
             setup, nc, exp>>

InitIdleCall ==
    /\ cfg = [variant |-> "A", hasCtx |-> FALSE, roomFake |-> FALSE]
    /\ phase = "INIT"
    /\ setup = <<>>
    /\ nc = <<>>
    /\ exp = Idle
    /\ ref = [n \in RecNames |-> FALSE]
    /\ tool = [t \in ToolIds |-> IdleTool]
    /\ shutdownCalls = 0
    /\ tasks = {}
    /\ err = FALSE
    /\ InitIdleTools
    /\ log = <<>>
    /\ now = 1
    /\ files = <<>>

\* recorder = ConversationRecorder(filepath)
InitConv ==
    /\ InitIdleCall
    /\ conv = ConversationRecorder_init(Path("transcript_", 0, ".json"), 0)
    /\ aud = [n \in AudNames |-> NoAudio]
    /\ lock = "free"
    /\ thr = IdleThreads
    /\ api = 0

conv_start ==
    /\ api < MaxApiCalls
    /\ api' = api + 1
    /\ conv' = ConversationRecorder_start(conv, now)
    /\ log' = Append(log, [ev |-> "start", t |-> now])
    /\ now' = now + 1
    /\ UNCHANGED <<idleCall, aud, files, lock, thr>>

conv_add_user_message(text, language) ==
    /\ api < MaxApiCalls
    /\ api' = api + 1
    /\ conv' = add_user_message(conv, text, language, now)
    /\ log' = Append(log, [ev |-> "add_user_message", text |-> text,
                           language |-> language, t |-> now])
    /\ now' = now + 1
    /\ UNCHANGED <<idleCall, aud, files, lock, thr>>

conv_add_agent_message(text) ==
    /\ api < MaxApiCalls
    /\ api' = api + 1
    /\ conv' = add_agent_message(conv, text, now)
    /\ log' = Append(log, [ev |-> "add_agent_message", text |-> text, t |-> now])
    /\ now' = now + 1
    /\ UNCHANGED <<idleCall, aud, files, lock, thr>>

conv_stop(w) ==
    /\ api < MaxApiCalls
    /\ api' = api + 1
    /\ LET r == ConversationRecorder_stop(conv, files, w, now, HarnessId)
       IN /\ conv' = r.self
          /\ files' = r.fs
          /\ log' = Append(log, [ev |-> "stop", t |-> now]) \o r.events
    /\ now' = now + 1
    /\ UNCHANGED <<idleCall, aud, lock, thr>>

NextConv ==
    \/ conv_start
    \/ \E a \in UserArgs : conv_add_user_message(a.text, a.language)
    \/ \E text \in Texts : conv_add_agent_message(text)
    \/ \E w \in WriteOutcomes : conv_stop(w)

SpecConv == InitConv /\ [][NextConv]_vars

\* ============== LocalAudioRecorder with two threads, one statement per step
\* (SpecThread): a producer thread calls add_frame, another thread calls stop
InitThread ==
    /\ InitIdleCall
    /\ conv = NoConv
    /\ aud = [n \in AudNames |->
                IF n = "audio_recorder"
                THEN LocalAudioRecorder_start(
                       LocalAudioRecorder_init(Path("audio_", 0, ".wav"), DefaultSampleRate, NumChannels))
                ELSE NoAudio]
    /\ lock = "free"
    /\ thr = IdleThreads
    /\ api = 0

Rec == aud["audio_recorder"]

\* add_frame, line 44: `if self.is_recording and frame:`
add_frame_check(frame) ==
    /\ thr.producer = "idle"
    /\ thr.delivered < MaxThreadFrames
    /\ thr' = [thr EXCEPT !.delivered = @ + 1,
                          !.frame = IF Rec.is_recording THEN frame ELSE NoFrame,
                          !.producer = IF Rec.is_recording THEN "acquire" ELSE "idle"]
    /\ UNCHANGED <<idleCall, conv, aud, files, log, now, lock, api>>

\* add_frame, line 45: `with self._lock:` (acquire)
add_frame_acquire ==
    /\ thr.producer = "acquire"
    /\ lock = "free"
    /\ lock' = "producer"
    /\ thr' = [thr EXCEPT !.producer = "append"]
    /\ UNCHANGED <<idleCall, conv, aud, files, log, now, api>>

\* add_frame, line 47: `self.frames.append(bytes(frame.data))`
add_frame_append ==
    /\ thr.producer = "append"
    /\ aud' = [aud EXCEPT !["audio_recorder"].frames = Append(@, ToBytes(thr.frame.data))]
    /\ log' = Append(log, [ev |-> "append", active |-> Rec.is_recording,
                           flushed |-> thr.stopper \in {"release", "done"}])
    /\ thr' = [thr EXCEPT !.producer = "release"]
    /\ UNCHANGED <<idleCall, conv, files, now, lock, api>>

\* add_frame: leaving the `with` block releases the lock
add_frame_release ==
    /\ thr.producer = "release"
    /\ lock' = "free"
    /\ thr' = [thr EXCEPT !.producer = "idle", !.frame = NoFrame]
    /\ UNCHANGED <<idleCall, conv, aud, files, log, now, api>>

\* stop, line 51: `self.is_recording = False`
stop_mark ==
    /\ thr.stopper = "idle"
    /\ aud' = [aud EXCEPT !["audio_recorder"].is_recording = FALSE]
    /\ thr' = [thr EXCEPT !.stopper = "acquire"]
    /\ UNCHANGED <<idleCall, conv, files, log, now, lock, api>>

\* stop, line 53: `with self._lock:` (acquire)
stop_acquire ==
    /\ thr.stopper = "acquire"
    /\ lock = "free"
    /\ lock' = "stopper"
    /\ thr' = [thr EXCEPT !.stopper = "flush"]
    /\ UNCHANGED <<idleCall, conv, aud, files, log, now, api>>

\* stop, lines 54-75: the empty check, the join and the write
stop_flush(w) ==
    /\ thr.stopper = "flush"
    /\ LET r == LocalAudioRecorder_flush(Rec, files, w, HarnessId)
       IN /\ files' = r.fs
          /\ log' = log \o r.events
    /\ thr' = [thr EXCEPT !.stopper = "release"]
    /\ UNCHANGED <<idleCall, conv, aud, now, lock, api>>

\* mutant: the early return on an empty buffer leaves the lock held
stop_release_held ==
    /\ thr.stopper = "release"
    /\ lock' = IF Rec.frames = <<>> THEN lock ELSE "free"
    /\ thr' = [thr EXCEPT !.stopper = "done"]
    /\ UNCHANGED <<idleCall, conv, aud, files, log, now, api>>

\* stop: leaving the `with` block (return, fall-through or handled exception)
stop_release ==
    /\ thr.stopper = "release"
    /\ lock' = "free"
    /\ thr' = [thr EXCEPT !.stopper = "done"]
    /\ UNCHANGED <<idleCall, conv, aud, files, log, now, api>>

NextThread ==
    \/ \E f \in Frames : add_frame_check(f)
    \/ add_frame_acquire
    \/ add_frame_append
    \/ add_frame_release
    \/ stop_mark
    \/ stop_acquire
    \/ \E w \in WriteOutcomes : stop_flush(w)
    \/ stop_release

SpecThread == InitThread /\ [][NextThread]_vars

\* the operating system runs every runnable thread again: a thread that can take
\* its next step inside add_frame or stop takes it. When a call begins
\* (add_frame_check, stop_mark) is up to the callers.
ThreadFairness ==
    /\ WF_vars(add_frame_acquire)
    /\ WF_vars(add_frame_append)
    /\ WF_vars(add_frame_release)
    /\ WF_vars(stop_acquire)
    /\ WF_vars(\E w \in WriteOutcomes : stop_flush(w))
    /\ WF_vars(stop_release)

SpecThreadFair == InitThread /\ [][NextThread]_vars /\ ThreadFairness

\* ================= the audio recorders driven through their API (SpecRec)
\* cfg.variant selects the class under test: LocalAudioRecorder (agent.py) or
\* AudioRecorder (agent1.py)
RecFrames == {[data |-> <<1>>, sample_rate |-> 8000],
              [data |-> <<-2, 3>>, sample_rate |-> 16000],
              NoFrame}

RecName == IF cfg.variant = "A" THEN "audio_recorder" ELSE "user_audio_recorder"

\* recorder = LocalAudioRecorder(filepath, sample_rate=48000, num_channels=1)
\* recorder = AudioRecorder(filepath)
InitRec ==
    /\ cfg \in [variant : {"A", "B"}, hasCtx : {FALSE}, roomFake : {FALSE}]
    /\ phase = "INIT"
    /\ setup = <<>>
    /\ nc = <<>>
    /\ exp = Idle
    /\ ref = [n \in RecNames |-> FALSE]
    /\ tool = [t \in ToolIds |-> IdleTool]
    /\ shutdownCalls = 0
    /\ tasks = {}
    /\ err = FALSE
    /\ InitIdleTools
    /\ log = <<>>
    /\ now = 1
    /\ files = <<>>
    /\ conv = NoConv
    /\ aud = [n \in AudNames |->
                IF n = RecName
                THEN IF cfg.variant = "A"
                     THEN LocalAudioRecorder_init(Path("audio_", 0, ".wav"),
                                                  DefaultSampleRate, NumChannels)
                     ELSE AudioRecorder_init(Path("user_audio_", 0, ".wav"), NumChannels)
                ELSE NoAudio]
    /\ lock = "free"
    /\ thr = IdleThreads
    /\ api = 0

rec_start ==
    /\ api < MaxRecCalls
    /\ api' = api + 1
    /\ aud' = [aud EXCEPT ![RecName] = IF cfg.variant = "A"
                                       THEN LocalAudioRecorder_start(@)
                                       ELSE AudioRecorder_start(@)]
    /\ log' = Append(log, [ev |-> "start"])
    /\ UNCHANGED <<idleCall, conv, files, now, lock, thr>>

rec_add_frame(frame) ==
    /\ api < MaxRecCalls
    /\ api' = api + 1
    /\ aud' = [aud EXCEPT ![RecName] = IF cfg.variant = "A"
                                       THEN LocalAudioRecorder_add_frame(@, frame)
                                       ELSE AudioRecorder_add_frame(@, frame)]
    /\ log' = Append(log, [ev |-> "add_frame", frame |-> frame])
    /\ UNCHANGED <<idleCall, conv, files, now, lock, thr>>

rec_stop(w) ==
    /\ api < MaxRecCalls
    /\ api' = api + 1
    /\ LET r == IF cfg.variant = "A"
                THEN LocalAudioRecorder_stop(aud[RecName], files, w, HarnessId)
                ELSE AudioRecorder_stop(aud[RecName], files, w, HarnessId)
       IN /\ aud' = [aud EXCEPT ![RecName] = r.self]
          /\ files' = r.fs
          /\ log' = Append(log, [ev |-> "stop"]) \o r.events
    /\ UNCHANGED <<idleCall, conv, now, lock, thr>>

NextRec ==
    \/ rec_start
    \/ \E f \in RecFrames : rec_add_frame(f)
    \/ \E w \in WriteOutcomes : rec_stop(w)

SpecRec == InitRec /\ [][NextRec]_vars

\* ======================= combine_audio_files called on two files (SpecMix)
MixUserPath == Path("user_audio_", 0, ".wav")
MixAgentPath == Path("agent_audio_", 0, ".wav")
MixOutputPath == Path("call_recording_", 0, ".wav")

SeqsUpTo(V, n) == UNION {[1..k -> V] : k \in 0..n}

\* a recording as a recorder writes it: mono, 16-bit, at the rate of its frames
Recording(rate, samples) ==
    [kind |-> "wav", nchannels |-> 1, sampwidth |-> 2, framerate |-> rate,
     data |-> ToBytes(samples)]

\* eleven samples from a track of 11000 Hz, and one sample from a track of 15000 Hz
LongUserWav == Recording(11000, [i \in 1..11 |-> 100 * i - 600])
SlowAgentWav == Recording(15000, <<-32768>>)

\* two equal samples from a track of 11025 Hz, and one sample from a track of 48000 Hz
FlatUserWav == Recording(11025, <<3, 3>>)
FastAgentWav == Recording(48000, <<-32768>>)

\* what the two paths can hold: no file, a truncated file (a write that failed
\* midway), or a recording
MixUserFiles ==
    {[kind |-> "none"], [kind |-> "partial"], LongUserWav, FlatUserWav}
    \cup {Recording(r, s) : r \in {8000, 16000}, s \in SeqsUpTo({-1, 32767}, MaxMixLen)}
MixAgentFiles ==
    {[kind |-> "none"], SlowAgentWav, FastAgentWav}
    \cup {Recording(16000, s) : s \in SeqsUpTo({-32768}, MaxMixLen)}

InitMix ==
    /\ cfg = [variant |-> "B", hasCtx |-> FALSE, roomFake |-> FALSE]
    /\ phase = "INIT"
    /\ setup = <<>>
    /\ nc = <<>>
    /\ exp = Idle
    /\ ref = [n \in RecNames |-> FALSE]
    /\ tool = [t \in ToolIds |-> IdleTool]
    /\ shutdownCalls = 0
    /\ tasks = {}
    /\ err = FALSE
    /\ wx = Idle
    /\ sip = Idle
    /\ log = <<>>
    /\ now = 1
    /\ conv = NoConv
    /\ aud = [n \in AudNames |-> NoAudio]
    /\ lock = "free"
    /\ thr = IdleThreads
    /\ api = 0
    /\ \E u \in MixUserFiles, a \in MixAgentFiles :
          files = [p \in (IF u.kind = "none" THEN {} ELSE {MixUserPath})
                         \cup (IF a.kind = "none" THEN {} ELSE {MixAgentPath}) |->
                      IF p = MixUserPath THEN u ELSE a]
    /\ mix \in [pc : {"ready"}, w : WriteOutcomes]

\* combine_audio_files(user_audio_path, agent_audio_path, output_path)
combine ==
    /\ mix.pc = "ready"
    /\ \E r \in {combine_audio_files(files, MixUserPath, MixAgentPath, MixOutputPath, mix.w)} :
          /\ files' = r.fs
          /\ mix' = [pc |-> IF r.raised THEN "raised" ELSE "returned", w |-> mix.w,
                     result |-> r.ok,
                     user_samples |-> r.user_samples, agent_samples |-> r.agent_samples]
    /\ UNCHANGED <<cfg, phase, ref, tool, shutdownCalls, tasks, err, wx, sip,
                   conv, aud, log, now, lock, thr, api, setup, nc, exp>>

NextMix == combine

SpecMix == InitMix /\ [][NextMix]_vars

\* ==================== get_weather called with its two providers (SpecWeather)
WEATHER_CODES ==
    [c \in {0, 1, 2, 3, 45, 48, 51, 53, 55, 61, 63, 65, 71, 73, 75, 77, 80, 81,
            82, 85, 86, 95, 96, 99} |->
        CASE c = 0 -> "clear sky"
          [] c = 1 -> "mainly clear"
          [] c = 2 -> "partly cloudy"
          [] c = 3 -> "overcast"
          [] c = 45 -> "foggy"
          [] c = 48 -> "depositing rime fog"
          [] c = 51 -> "light drizzle"
          [] c = 53 -> "moderate drizzle"
          [] c = 55 -> "dense drizzle"
          [] c = 61 -> "slight rain"
          [] c = 63 -> "moderate rain"
          [] c = 65 -> "heavy rain"
          [] c = 71 -> "slight snow"
          [] c = 73 -> "moderate snow"
          [] c = 75 -> "heavy snow"
          [] c = 77 -> "snow grains"
          [] c = 80 -> "slight rain showers"
          [] c = 81 -> "moderate rain showers"
          [] c = 82 -> "violent rain showers"
          [] c = 85 -> "slight snow showers"
          [] c = 86 -> "heavy snow showers"
          [] c = 95 -> "thunderstorm"
          [] c = 96 -> "thunderstorm with slight hail"
          [] c = 99 -> "thunderstorm with heavy hail"]

\* a JSON object is a function from its keys; {} has no key
EmptyDict == [k \in {} |-> 0]

\* dict.get(key, default)
Get(d, key, default) == IF key \in DOMAIN d THEN d[key] ELSE default

\* f"{d.get(key, default)}" for a number under the key and a text as default
GetStr(d, key, default) == IF key \in DOMAIN d THEN ToString(d[key]) ELSE default

\* float(s) for the decimal text of a whole number of degrees
Digit(c) == CASE c = "0" -> 0 [] c = "1" -> 1 [] c = "2" -> 2 [] c = "3" -> 3
              [] c = "4" -> 4 [] c = "5" -> 5 [] c = "6" -> 6 [] c = "7" -> 7
              [] c = "8" -> 8 [] c = "9" -> 9

RECURSIVE ParseDigits(_)
ParseDigits(s) ==
    IF Len(s) = 0 THEN 0
    ELSE 10 * ParseDigits(SubSeq(s, 1, Len(s) - 1)) + Digit(SubSeq(s, Len(s), Len(s)))

float(s) == IF SubSeq(s, 1, 1) = "-" THEN 0 - ParseDigits(SubSeq(s, 2, Len(s)))
            ELSE ParseDigits(s)

\* s.split(",")[0]
split_first(s) ==
    LET commas == {i \in 1..Len(s) : SubSeq(s, i, i) = ","}
    IN IF commas = {} THEN s
       ELSE SubSeq(s, 1, (CHOOSE i \in commas : \A j \in commas : i <= j) - 1)

\* "forecast_days": 3 in the query
forecast_days == 3

\* what session.get brings back from the geocoder: a connection error, or a
\* response with a status and a JSON list of at most one place ("limit": 1)
Locations == {"Paris", "Atlantis"}
Places == {[lat |-> "48", lon |-> "2", display_name |-> "Paris, Ile-de-France, France"],
           [lat |-> "-33", lon |-> "151", display_name |-> "Sydney"]}
GeoResponses ==
    {[kind |-> "error"]}
    \cup {[kind |-> "response", status |-> s, data |-> d] :
             s \in {200, 404}, d \in {<<>>} \cup {<<p>> : p \in Places}}

\* what session.get brings back from the weather provider: the "current" object
\* (whole, with a code outside the table, or without its fields) and the "daily"
\* object (absent, empty, or "time" and the four requested arrays, each of at
\* most forecast_days entries)
Currents ==
    {[temperature_2m |-> 18, apparent_temperature |-> 17, relative_humidity_2m |-> 60,
      wind_speed_10m |-> 12, weather_code |-> 3],
     [temperature_2m |-> -4, apparent_temperature |-> -9, relative_humidity_2m |-> 85,
      wind_speed_10m |-> 30, weather_code |-> 4],
     EmptyDict}
Days(values, n) == SubSeq(values, 1, n)
DailyArrays ==
    {[temperature_2m_max |-> Days(<<20, 22, 25, 19>>, a),
      temperature_2m_min |-> Days(<<10, 12, 14, 9>>, b),
      precipitation_probability_max |-> Days(<<5, 60, 30, 0>>, c),
      weather_code |-> Days(<<0, 61, 95, 7>>, d)] :
        a \in 0..forecast_days, b \in 0..forecast_days,
        c \in 0..forecast_days, d \in 0..forecast_days}
WithTime(arrays, n) ==
    [k \in DOMAIN arrays \cup {"time"} |->
        IF k = "time" THEN Days(<<"d1", "d2", "d3", "d4">>, n) ELSE arrays[k]]
Dailies ==
    {EmptyDict} \cup DailyArrays
    \cup {WithTime(arrays, n) : arrays \in DailyArrays, n \in 0..forecast_days}
Payloads ==
    {EmptyDict}
    \cup {[current |-> c] : c \in Currents}
    \cup {[current |-> c, daily |-> d] : c \in Currents, d \in Dailies}
    \cup {[daily |-> d] : d \in Dailies}
WeatherResponses ==
    {[kind |-> "error"], [kind |-> "response", status |-> 500, data |-> EmptyDict]}
    \cup {[kind |-> "response", status |-> 200, data |-> p] : p \in Payloads}

\* geocode_location(location) on the geocoder's answer; there is no try block,
\* so aiohttp's error propagates
GeoNone == [none |-> TRUE]
geocode_location(location, g) ==
    IF g.kind = "error" THEN [raised |-> TRUE, exc |-> "ClientError", value |-> GeoNone]
    ELSE IF g.status = 200 /\ g.data # <<>>
         THEN [raised |-> FALSE, exc |-> "",
               value |-> [none |-> FALSE,
                          lat |-> float(g.data[1].lat),
                          lon |-> float(g.data[1].lon),
                          display_name |-> g.data[1].display_name]]
         ELSE [raised |-> FALSE, exc |-> "", value |-> GeoNone]

\* get_weather_data(lat, lon) on the provider's answer
get_weather_data(lat, lon, r) ==
    IF r.kind = "error" THEN [raised |-> TRUE, exc |-> "ClientError", none |-> TRUE]
    ELSE IF r.status = 200
         THEN [raised |-> FALSE, exc |-> "", none |-> FALSE, value |-> r.data]
         ELSE [raised |-> FALSE, exc |-> "", none |-> TRUE]

\* the two apologies of get_weather
NotFound(location) ==
    "Sorry, I couldn't find the location '" \o location
    \o "'. Please try a different city or place name."
NotFetched(location) ==
    "Sorry, I couldn't fetch weather data for " \o location
    \o ". Please try again later."

\* the forecast sentence of get_weather, from entry `day` of the daily arrays
\* (lists are indexed from 0 in the source, sequences from 1 here)
forecast_sentence(temps_max, temps_min, precip_prob, daily_codes, day) ==
    LET code == IF Len(daily_codes) > 1 THEN daily_codes[day + 1] ELSE 0
        tomorrow_conditions == Get(WEATHER_CODES, code, "unknown")
        tomorrow_precip == IF Len(precip_prob) > 1 THEN precip_prob[day + 1] ELSE 0
    IN " Tomorrow's forecast: high of " \o ToString(temps_max[day + 1])
       \o " degrees, low of " \o ToString(temps_min[day + 1]) \o " degrees, "
       \o tomorrow_conditions \o ", " \o ToString(tomorrow_precip)
       \o "% chance of precipitation."

\* "Parse forecast" in get_weather, with `day` the index read in each array:
\* temps_min[day] is read without a test of its length
forecast_at(daily, day) ==
    IF DOMAIN daily # {} /\ "time" \in DOMAIN daily
    THEN LET temps_max == Get(daily, "temperature_2m_max", <<>>)
             temps_min == Get(daily, "temperature_2m_min", <<>>)
             precip_prob == Get(daily, "precipitation_probability_max", <<>>)
             daily_codes == Get(daily, "weather_code", <<>>)
         IN IF Len(temps_max) >= 2
            THEN IF Len(temps_min) < day + 1
                 THEN [raised |-> TRUE, exc |-> "IndexError", text |-> ""]
                 ELSE [raised |-> FALSE, exc |-> "",
                       text |-> forecast_sentence(temps_max, temps_min, precip_prob,
                                                  daily_codes, day)]
            ELSE [raised |-> FALSE, exc |-> "", text |-> ""]
    ELSE [raised |-> FALSE, exc |-> "", text |-> ""]

\* mutant: the clause is built from the first entry of each array
forecast_info_today(daily) == forecast_at(daily, 0)

forecast_info(daily) == forecast_at(daily, 1)

\* the first sentences of the answer of get_weather
current_sentence(geo_data, current) ==
    LET temp == GetStr(current, "temperature_2m", "N/A")
        feels_like == GetStr(current, "apparent_temperature", "N/A")
        humidity == GetStr(current, "relative_humidity_2m", "N/A")
        wind_speed == GetStr(current, "wind_speed_10m", "N/A")
        weather_code == Get(current, "weather_code", 0)
        conditions == Get(WEATHER_CODES, weather_code, "unknown conditions")
        short_location == split_first(geo_data.display_name)
    IN "Current weather in " \o short_location \o ": " \o temp
       \o " degrees Celsius, feels like " \o feels_like \o " degrees. Conditions: "
       \o conditions \o ". Humidity: " \o humidity \o "%. Wind speed: " \o wind_speed
       \o " kilometers per hour."

\* the tool is called by the dialogue runtime with a location
InitWeather ==
    /\ cfg = [variant |-> "A", hasCtx |-> FALSE, roomFake |-> FALSE]
    /\ phase = "INIT"
    /\ setup = <<>>
    /\ nc = <<>>
    /\ exp = Idle
    /\ ref = [n \in RecNames |-> FALSE]
    /\ tool = [t \in ToolIds |-> IdleTool]
    /\ shutdownCalls = 0
    /\ tasks = {}
    /\ err = FALSE
    /\ mix = Idle
    /\ sip = Idle
    /\ log = <<>>
    /\ now = 1
    /\ files = <<>>
    /\ conv = NoConv
    /\ aud = [n \in AudNames |-> NoAudio]
    /\ lock = "free"
    /\ thr = IdleThreads
    /\ api = 0
    /\ \E l \in Locations :
          wx = [pc |-> "called", location |-> l, requests |-> <<>>]

notWeather == <<cfg, phase, ref, conv, aud, files, tool, shutdownCalls, tasks, log,
                now, err, lock, thr, api, mix, sip, setup, nc, exp>>

\* get_weather up to its second await: geocode_location, then the test of geo_data
get_weather_geocode ==
    /\ wx.pc = "called"
    /\ \E g \in GeoResponses :
          LET r == geocode_location(wx.location, g)
              base == [location |-> wx.location, geo_response |-> g,
                       requests |-> Append(wx.requests, [to |-> "nominatim", q |-> wx.location])]
          IN wx' = IF r.raised
                   THEN base @@ [pc |-> "raised", exc |-> r.exc]
                   ELSE IF r.value.none
                        THEN base @@ [pc |-> "returned", result |-> NotFound(wx.location)]
                        ELSE base @@ [pc |-> "geocoded", geo_data |-> r.value]
    /\ UNCHANGED notWeather

\* get_weather from its second await to its end: get_weather_data, the test of
\* weather_data, and the composition of the answer
get_weather_forecast ==
    /\ wx.pc = "geocoded"
    /\ \E w \in WeatherResponses :
          LET r == get_weather_data(wx.geo_data.lat, wx.geo_data.lon, w)
              base == [location |-> wx.location, geo_response |-> wx.geo_response,
                       geo_data |-> wx.geo_data, weather_response |-> w,
                       requests |-> Append(wx.requests,
                                           [to |-> "open-meteo", latitude |-> wx.geo_data.lat,
                                            longitude |-> wx.geo_data.lon])]
          IN wx' = IF r.raised
                   THEN base @@ [pc |-> "raised", exc |-> r.exc]
                   ELSE IF r.none \/ DOMAIN r.value = {}
                        THEN base @@ [pc |-> "returned", result |-> NotFetched(wx.location)]
                        ELSE LET current == Get(r.value, "current", EmptyDict)
                                 daily == Get(r.value, "daily", EmptyDict)
                                 f == forecast_info(daily)
                             IN IF f.raised
                                THEN base @@ [pc |-> "raised", exc |-> f.exc]
                                ELSE base @@ [pc |-> "returned", daily |-> daily,
                                              forecast_info |-> f.text,
                                              result |-> current_sentence(wx.geo_data, current)
                                                         \o f.text]
    /\ UNCHANGED notWeather

NextWeather == get_weather_geocode \/ get_weather_forecast

SpecWeather == InitWeather /\ [][NextWeather]_vars

\* ========================= sip_manager.py run from the command line (SpecSip)
\* str.lower()
UpperCase == "ABCDEFGHIJKLMNOPQRSTUVWXYZ"
LowerCase == "abcdefghijklmnopqrstuvwxyz"
lower_char(c) ==
    LET hits == {i \in 1..Len(UpperCase) : SubSeq(UpperCase, i, i) = c}
    IN IF hits = {} THEN c
       ELSE LET i == CHOOSE i \in hits : TRUE IN SubSeq(LowerCase, i, i)

RECURSIVE lower(_)
lower(s) == IF Len(s) = 0 THEN s
            ELSE lower_char(SubSeq(s, 1, 1)) \o lower(SubSeq(s, 2, Len(s)))

\* f"{numbers}" for a list of texts
RECURSIVE ListItems(_)
ListItems(l) == IF l = <<>> THEN ""
                ELSE IF Len(l) = 1 THEN "'" \o l[1] \o "'"
                ELSE "'" \o l[1] \o "', " \o ListItems(Tail(l))
ListRepr(l) == "[" \o ListItems(l) \o "]"

\* `value or default`
Or(value, default) == IF value = "" THEN default ELSE value

\* what the control plane holds before the run: nothing, or a trunk and a rule
\* of an earlier setup
OldPlane ==
    [inbound |-> <<[sip_trunk_id |-> "ST_old", name |-> "Twilio Inbound",
                    numbers |-> <<"+15550100">>, allowed_addresses |-> <<>>]>>,
     outbound |-> <<>>,
     rules |-> <<[sip_dispatch_rule_id |-> "SDR_old", name |-> "Voice Agent Dispatch",
                  trunk_ids |-> <<"ST_old">>, room_prefix |-> "call-"]>>]
EmptyPlane == [inbound |-> <<>>, outbound |-> <<>>, rules |-> <<>>]
Planes == {EmptyPlane, OldPlane}

\* the ids the control plane gives to new resources, and its answers to a
\* request: the call returns, or it raises (server unreachable, request refused)
TrunkIds == {"ST_a", "ST_b", "ST_c"}
RuleIds == {"SDR_a", "SDR_b"}
UsedIds(plane) ==
    {plane.inbound[i].sip_trunk_id : i \in DOMAIN plane.inbound}
    \cup {plane.outbound[i].sip_trunk_id : i \in DOMAIN plane.outbound}
    \cup {plane.rules[i].sip_dispatch_rule_id : i \in DOMAIN plane.rules}
Replies(ids, plane) == {[ok |-> FALSE, id |-> ""]}
                       \cup {[ok |-> TRUE, id |-> i] : i \in ids \ UsedIds(plane)}

\* lk = api.LiveKitAPI(...) / await lk.aclose()
OpenClient(s) == [s EXCEPT !.opened = @ + 1]
CloseClient(s) == [s EXCEPT !.closed = @ + 1]
Request(s, r) == [s EXCEPT !.calls = Append(@, r)]
print(s, line) == [s EXCEPT !.out = Append(@, line)]
Raise(s) == [s EXCEPT !.pc = "raised"]

RECURSIVE PrintInbound(_, _)
PrintInbound(s, trunks) ==
    IF trunks = <<>> THEN s
    ELSE LET trunk == Head(trunks)
         IN PrintInbound(print(print(print(print(s,
                "  ID: " \o trunk.sip_trunk_id),
                "  Name: " \o trunk.name),
                "  Numbers: " \o ListRepr(trunk.numbers)),
                ""), Tail(trunks))

RECURSIVE PrintOutbound(_, _)
PrintOutbound(s, trunks) ==
    IF trunks = <<>> THEN s
    ELSE LET trunk == Head(trunks)
         IN PrintOutbound(print(print(print(print(print(s,
                "  ID: " \o trunk.sip_trunk_id),
                "  Name: " \o trunk.name),
                "  Address: " \o trunk.address),
                "  Numbers: " \o ListRepr(trunk.numbers)),
                ""), Tail(trunks))

RECURSIVE PrintRules(_, _)
PrintRules(s, rules) ==
    IF rules = <<>> THEN s
    ELSE LET rule == Head(rules)
         IN PrintRules(print(print(print(print(print(s,
                "  ID: " \o rule.sip_dispatch_rule_id),
                "  Name: " \o rule.name),
                "  Trunk IDs: " \o ListRepr(rule.trunk_ids)),
                "  Rule: dispatch_rule_individual { room_prefix: " \o rule.room_prefix \o " }"),
                ""), Tail(rules))

\* list_sip_trunks(); ok1 and ok2 tell whether each of its two requests returns
list_sip_trunks(s, ok1, ok2) ==
    LET s1 == Request(print(OpenClient(s), "\n=== Inbound SIP Trunks ==="),
                      [op |-> "list_sip_inbound_trunk"])
    IN IF ~ok1 THEN Raise(s1)
       ELSE LET s2 == Request(print(PrintInbound(s1, s1.plane.inbound),
                                    "\n=== Outbound SIP Trunks ==="),
                              [op |-> "list_sip_outbound_trunk"])
            IN IF ~ok2 THEN Raise(s2)
               ELSE CloseClient(PrintOutbound(s2, s2.plane.outbound))

\* list_dispatch_rules()
list_dispatch_rules(s, ok) ==
    LET s1 == Request(print(OpenClient(s), "\n=== SIP Dispatch Rules ==="),
                      [op |-> "list_sip_dispatch_rule"])
    IN IF ~ok THEN Raise(s1)
       ELSE CloseClient(PrintRules(s1, s1.plane.rules))

\* create_inbound_trunk(name, numbers, allowed_addresses); the trunk it returns
\* is kept in s.inbound
create_inbound_trunk(s, name, numbers, allowed_addresses, reply) ==
    LET info == [name |-> name, numbers |-> numbers,
                 allowed_addresses |-> allowed_addresses]
        s1 == Request(OpenClient(s), [op |-> "create_sip_inbound_trunk", trunk |-> info])
    IN IF ~reply.ok THEN Raise(s1)
       ELSE LET trunk == info @@ [sip_trunk_id |-> reply.id]
                s2 == [s1 EXCEPT !.plane.inbound = Append(@, trunk)]
            IN [CloseClient(print(s2, "Created inbound trunk: " \o trunk.sip_trunk_id))
                   EXCEPT !.inbound = trunk]

\* create_outbound_trunk(name, address, numbers, auth_username, auth_password);
\* the trunk it returns is kept in s.outbound
create_outbound_trunk(s, name, address, numbers, auth_username, auth_password, reply) ==
    LET info == [name |-> name, address |-> address, numbers |-> numbers,
                 auth_username |-> Or(auth_username, ""),
                 auth_password |-> Or(auth_password, "")]
        s1 == Request(OpenClient(s), [op |-> "create_sip_outbound_trunk", trunk |-> info])
    IN IF ~reply.ok THEN Raise(s1)
       ELSE LET trunk == info @@ [sip_trunk_id |-> reply.id]
                s2 == [s1 EXCEPT !.plane.outbound = Append(@, trunk)]
            IN [CloseClient(print(s2, "Created outbound trunk: " \o trunk.sip_trunk_id))
                   EXCEPT !.outbound = trunk]

\* create_dispatch_rule(name, room_prefix, trunk_ids); the rule it returns is
\* kept in s.rule
create_dispatch_rule(s, name, room_prefix, trunk_ids, reply) ==
    LET info == [name |-> name, trunk_ids |-> trunk_ids, room_prefix |-> room_prefix]
        s1 == Request(OpenClient(s), [op |-> "create_sip_dispatch_rule", rule |-> info])
    IN IF ~reply.ok THEN Raise(s1)
       ELSE LET rule == info @@ [sip_dispatch_rule_id |-> reply.id]
                s2 == [s1 EXCEPT !.plane.rules = Append(@, rule)]
            IN [CloseClient(print(s2, "Created dispatch rule: " \o rule.sip_dispatch_rule_id))
                   EXCEPT !.rule = rule]

\* mutant: the rule is bound to the first inbound trunk of the control plane
setup_rule_first_trunk(s, reply) ==
    create_dispatch_rule(s, "Voice Agent Dispatch", "call-",
                         <<s.plane.inbound[1].sip_trunk_id>>, reply)

\* setup_twilio_trunk: "Create dispatch rule"
setup_rule(s, reply) ==
    create_dispatch_rule(s, "Voice Agent Dispatch", "call-",
                         <<s.inbound.sip_trunk_id>>, reply)

\* mutant: after the listing, every inbound trunk listed is deleted
delete_all_deleting(s, confirm, ok1, ok2) ==
    IF lower(confirm) = "yes"
    THEN LET s1 == list_sip_trunks(s, ok1, ok2)
         IN IF s1.pc = "raised" THEN s1
            ELSE Request(OpenClient(s1),
                         [op |-> "delete_sip_trunk", sip_trunk_id |-> "ST_old"])
    ELSE s

\* mutant: the listing and the message do not depend on the answer
delete_all_unconfirmed(s, confirm, ok1, ok2) ==
    LET s1 == list_sip_trunks(s, ok1, ok2)
    IN IF s1.pc = "raised" THEN s1
       ELSE print(s1, "Deletion not implemented - use lk.exe CLI to delete individual items")

\* __main__, command "delete-all", after the answer to the confirmation
delete_all(s, confirm, ok1, ok2) ==
    IF lower(confirm) = "yes"
    THEN LET s1 == list_sip_trunks(s, ok1, ok2)
         IN IF s1.pc = "raised" THEN s1
            ELSE print(s1, "Deletion not implemented - use lk.exe CLI to delete individual items")
    ELSE s

\* sys.argv[1:] and what the operator types at the prompts
Commands == {"", "list", "setup", "delete-all", "help"}
Phones == {"+15550100", "+15550111"}
Domains == {"xxx.pstn.twilio.com"}
Usernames == {"", "user"}
Passwords == {"", "secret"}
Confirmations == {"yes", "YES", "Yes", "no", "y", ""}

NoTrunk == [sip_trunk_id |-> ""]
NoRule == [sip_dispatch_rule_id |-> ""]

InitSip ==
    /\ cfg = [variant |-> "A", hasCtx |-> FALSE, roomFake |-> FALSE]
    /\ phase = "INIT"
    /\ setup = <<>>
    /\ nc = <<>>
    /\ exp = Idle
    /\ ref = [n \in RecNames |-> FALSE]
    /\ tool = [t \in ToolIds |-> IdleTool]
    /\ shutdownCalls = 0
    /\ tasks = {}
    /\ err = FALSE
    /\ mix = Idle
    /\ wx = Idle
    /\ log = <<>>
    /\ now = 1
    /\ files = <<>>
    /\ conv = NoConv
    /\ aud = [n \in AudNames |-> NoAudio]
    /\ lock = "free"
    /\ thr = IdleThreads
    /\ api = 0
    /\ \E command \in Commands, plane \in Planes :
          sip = [pc |-> "main", command |-> command, plane |-> plane,
                 calls |-> <<>>, out |-> <<>>, opened |-> 0, closed |-> 0,
                 answers |-> <<>>, inbound |-> NoTrunk, outbound |-> NoTrunk,
                 rule |-> NoRule]

notSip == <<cfg, phase, ref, conv, aud, files, tool, shutdownCalls, tasks, log,
            now, err, lock, thr, api, mix, wx, setup, nc, exp>>

\* __main__ up to its first asyncio.run: the command is read and, for "setup" and
\* "delete-all", the operator's answers
main ==
    /\ sip.pc = "main"
    /\ \/ /\ sip.command = ""
          /\ sip' = [print(sip, "LiveKit SIP Management Script ... Usage: ...")
                        EXCEPT !.pc = "exited"]
       \/ /\ sip.command = "list"
          /\ sip' = [sip EXCEPT !.pc = "list_sip_trunks"]
       \/ /\ sip.command = "setup"
          /\ \E phone \in Phones, domain \in Domains,
                username \in Usernames, password \in Passwords :
                sip' = [print(sip, "Twilio SIP Trunk Setup")
                           EXCEPT !.pc = "create_inbound_trunk",
                                  !.answers = <<phone, domain, username, password>>]
       \/ /\ sip.command = "delete-all"
          /\ \E confirm \in Confirmations :
                sip' = [sip EXCEPT !.pc = "delete_all", !.answers = <<confirm>>]
       \/ /\ sip.command \notin {"", "list", "setup", "delete-all"}
          /\ sip' = [print(sip, "Unknown command: " \o sip.command)
                        EXCEPT !.pc = "exited"]
    /\ UNCHANGED notSip

\* command "list": asyncio.run(list_sip_trunks())
run_list_sip_trunks ==
    /\ sip.pc = "list_sip_trunks"
    /\ \E ok1 \in BOOLEAN, ok2 \in BOOLEAN :
          LET s == list_sip_trunks(sip, ok1, ok2)
          IN sip' = IF s.pc = "raised" THEN s
                    ELSE [s EXCEPT !.pc = "list_dispatch_rules"]
    /\ UNCHANGED notSip

\* command "list": asyncio.run(list_dispatch_rules())
run_list_dispatch_rules ==
    /\ sip.pc = "list_dispatch_rules"
    /\ \E ok \in BOOLEAN :
          LET s == list_dispatch_rules(sip, ok)
          IN sip' = IF s.pc = "raised" THEN s ELSE [s EXCEPT !.pc = "exited"]
    /\ UNCHANGED notSip

\* setup_twilio_trunk up to its second await
setup_create_inbound ==
    /\ sip.pc = "create_inbound_trunk"
    /\ \E reply \in Replies(TrunkIds, sip.plane) :
          LET s == create_inbound_trunk(print(sip, "Setting up Twilio SIP Trunk..."),
                                        "Twilio Inbound", <<sip.answers[1]>>, <<>>, reply)
          IN sip' = IF s.pc = "raised" THEN s
                    ELSE [s EXCEPT !.pc = "create_outbound_trunk"]
    /\ UNCHANGED notSip

\* mutant: when the outbound trunk cannot be created, the inbound trunk created
\* before it is deleted again
setup_create_outbound_rollback ==
    /\ sip.pc = "create_outbound_trunk"
    /\ \E reply \in Replies(TrunkIds, sip.plane) :
          LET s == create_outbound_trunk(sip, "Twilio Outbound", sip.answers[2],
                                         <<sip.answers[1]>>, sip.answers[3],
                                         sip.answers[4], reply)
          IN sip' = IF s.pc = "raised"
                    THEN [Request(s, [op |-> "delete_sip_trunk",
                                      sip_trunk_id |-> s.inbound.sip_trunk_id])
                            EXCEPT !.plane.inbound = SubSeq(@, 1, Len(@) - 1)]
                    ELSE [s EXCEPT !.pc = "create_dispatch_rule"]
    /\ UNCHANGED notSip

\* setup_twilio_trunk from its second await to its third
setup_create_outbound ==
    /\ sip.pc = "create_outbound_trunk"
    /\ \E reply \in Replies(TrunkIds, sip.plane) :
          LET s == create_outbound_trunk(sip, "Twilio Outbound", sip.answers[2],
                                         <<sip.answers[1]>>, sip.answers[3],
                                         sip.answers[4], reply)
          IN sip' = IF s.pc = "raised" THEN s
                    ELSE [s EXCEPT !.pc = "create_dispatch_rule"]
    /\ UNCHANGED notSip

\* setup_twilio_trunk from its third await to its end
setup_create_rule ==
    /\ sip.pc = "create_dispatch_rule"
    /\ \E reply \in Replies(RuleIds, sip.plane) :
          LET s == setup_rule(sip, reply)
          IN sip' = IF s.pc = "raised" THEN s
                    ELSE [print(print(print(print(s,
                              "\n=== Setup Complete ==="),
                              "Inbound Trunk ID: " \o s.inbound.sip_trunk_id),
                              "Outbound Trunk ID: " \o s.outbound.sip_trunk_id),
                              "Dispatch Rule ID: " \o s.rule.sip_dispatch_rule_id)
                            EXCEPT !.pc = "exited"]
    /\ UNCHANGED notSip

\* command "delete-all", after the prompt
run_delete_all ==
    /\ sip.pc = "delete_all"
    /\ \E ok1 \in BOOLEAN, ok2 \in BOOLEAN :
          LET s == delete_all(sip, sip.answers[1], ok1, ok2)
          IN sip' = IF s.pc = "raised" THEN s ELSE [s EXCEPT !.pc = "exited"]
    /\ UNCHANGED notSip

NextSip ==
    \/ main
    \/ run_list_sip_trunks
    \/ run_list_dispatch_rules
    \/ setup_create_inbound
    \/ setup_create_outbound
    \/ setup_create_rule
    \/ run_delete_all

SpecSip == InitSip /\ [][NextSip]_vars

\* ===== a call of Variant A that the caller ends, with its exporter (SpecExport)
\* the temporary file of the platform's recorder, and the session reports:
\* report_dict with and without the key "audio_recording_path"
PlatformRecording == Path("/tmp/recorder_io", 0, ".ogg")
Reports ==
    {[room |-> "call"],
     [room |-> "call", audio_recording_path |-> PlatformRecording]}

\* on_session_end, the statements inside `try` after report.to_dict(): copied
\* and w are the outcomes of shutil.copy2 and of the write of the report
on_session_end_try(fs, timestamp, report_dict, copied, w) ==
    LET audio_recording_path == Get(report_dict, "audio_recording_path", NoPath)
        ogg_filepath == Path("livekit_recording_", timestamp, ".ogg")
        report_filepath == Path("session_report_", timestamp, ".json")
        found == audio_recording_path # NoPath /\ Exists(fs, audio_recording_path)
    IN IF found /\ copied # "ok"
       THEN [fs |-> WriteFile(fs, ogg_filepath, [kind |-> "ogg"], copied),
             out |-> <<"Found RecorderIO audio at">>, raised |-> TRUE]
       ELSE LET fs1 == IF found THEN WriteFile(fs, ogg_filepath, fs[audio_recording_path], copied)
                       ELSE fs
                out1 == IF found
                        THEN <<"Found RecorderIO audio at", "LiveKit recording saved">>
                        ELSE IF audio_recording_path # NoPath
                        THEN <<"Audio recording path not found">>
                        ELSE <<"No audio_recording_path in session report">>
            IN [fs |-> WriteFile(fs1, report_filepath,
                                 [kind |-> "json", data |-> report_dict], w),
                out |-> IF w = "ok" THEN Append(out1, "Session report saved") ELSE out1,
                raised |-> w # "ok"]

\* on_session_end(ctx): made tells whether ctx.make_session_report() returns;
\* `except Exception` prints the error and lets nothing out
on_session_end(fs, timestamp, made, report_dict, copied, w) ==
    IF ~made
    THEN [fs |-> fs, out |-> <<"Error in on_session_end">>, propagated |-> FALSE]
    ELSE LET r == on_session_end_try(fs, timestamp, report_dict, copied, w)
         IN [fs |-> r.fs,
             out |-> IF r.raised THEN Append(r.out, "Error in on_session_end") ELSE r.out,
             propagated |-> FALSE]

\* the inputs of one run of on_session_end: an outcome is chosen only for a
\* statement the run reaches
ExportInputs ==
    {i \in [recorded : BOOLEAN, made : BOOLEAN, report_dict : Reports,
            copied : WriteOutcomes, w : WriteOutcomes] :
        LET found == i.made /\ i.recorded /\ "audio_recording_path" \in DOMAIN i.report_dict
        IN /\ ~i.made => i.report_dict = [room |-> "call"]
           /\ ~found => i.copied = "ok"
           /\ (~i.made \/ (found /\ i.copied # "ok")) => i.w = "ok"}

\* the platform ends the session: its recorder, if it ran, has left its
\* temporary file, and the job calls on_session_end. The timestamp is the wall
\* clock to the second: the second of the call's begin, or a later one.
session_end ==
    /\ cfg.variant = "A"
    /\ phase = "ACTIVE"
    /\ exp.pc = "idle"
    /\ \E i \in ExportInputs, timestamp \in {conv.filepath.ts, now} :
          \E r \in {on_session_end(IF i.recorded
                                   THEN (PlatformRecording :> [kind |-> "ogg"]) @@ files
                                   ELSE files,
                                   timestamp, i.made, i.report_dict, i.copied, i.w)} :
             /\ files' = r.fs
             /\ exp' = [pc |-> IF r.propagated THEN "raised" ELSE "returned",
                        timestamp |-> timestamp, made |-> i.made,
                        report_dict |-> i.report_dict, w |-> i.w, out |-> r.out]
    /\ now' = now + 1
    /\ UNCHANGED <<cfg, phase, ref, conv, aud, tool, shutdownCalls, tasks, log, err,
                   lock, thr, api, mix, wx, sip, setup, nc>>

InitExport ==
    /\ Init
    /\ cfg.variant = "A"

NextExport ==
    \/ my_agent_A
    \/ session_start
    \/ generate_reply
    \/ \E e \in UserEvents : on_user_transcribed(e)
    \/ \E e \in ItemEvents : on_conversation_item(e)
    \/ \E k \in TrackKinds : on_track_subscribed(k)
    \/ \E n \in AudNames, f \in Frames : capture_frame(n, f)
    \/ shutdown_callback
    \/ session_end

SpecExport == InitExport /\ [][NextExport]_vars

\* ========= participants joining a started session, either variant (SpecNoise)
\* rtc.ParticipantKind
ParticipantKinds ==
    {"PARTICIPANT_KIND_STANDARD", "PARTICIPANT_KIND_INGRESS", "PARTICIPANT_KIND_EGRESS",
     "PARTICIPANT_KIND_SIP", "PARTICIPANT_KIND_AGENT"}

\* mutant: the standard profile for every participant
noise_cancellation_standard(kind) == "BVC"

\* the lambda given as noise_cancellation to AudioInputOptions, the same text in
\* agent.py and agent1.py
noise_cancellation(kind) ==
    IF kind = "PARTICIPANT_KIND_SIP" THEN "BVCTelephony" ELSE "BVC"

\* the room input links a participant: it calls the lambda with the participant
participant_linked(kind) ==
    /\ Registered("session.start")
    /\ Len(nc) < MaxParticipants
    /\ nc' = Append(nc, [variant |-> cfg.variant, kind |-> kind,
                         profile |-> noise_cancellation(kind)])
    /\ UNCHANGED <<cfg, phase, ref, conv, aud, files, tool, shutdownCalls, tasks, log,
                   now, err, lock, thr, api, mix, wx, sip, setup, exp>>

NextNoise ==
    \/ my_agent_A
    \/ my_agent_B
    \/ \E kind \in ParticipantKinds : participant_linked(kind)

SpecNoise == Init /\ [][NextNoise]_vars

\* ======================================================= claims, under Spec
TeardownEvs == {"stop", "write", "combine", "shutdown"}
IsStop(e, r) == e.ev = "stop" /\ e.rec = r
StopCount(r) == Cardinality({i \in DOMAIN log : IsStop(log[i], r)})

\* the recorder object behind a global was created and started by my_agent
Started(r) == IF r = "conversation_recorder" THEN conv.filepath # NoPath
              ELSE aud[r].filepath # NoPath

\* the tool coroutine t has run hangup_call
HangupRan(t) == tool[t].pc \in {"awaiting", "done", "failed"}

\* teardown entry points that have run: hangup_call from a tool, or the shutdown callback
TeardownsRun == Cardinality({t \in ToolIds : HangupRan(t)}) + shutdownCalls

\* C1: over any sequence of hangup_call and shutdown-callback invocations, every
\* started recorder is stopped exactly once, by the first invocation (all stops
\* and all file writes of the call belong to one invocation), and its reference
\* is cleared; later invocations stop nothing and write nothing.
C1_StopExactlyOnce ==
    /\ \A r \in RecNames : StopCount(r) <= 1
    /\ TeardownsRun >= 1 =>
         \A r \in RecNames : /\ ~ref[r]
                             /\ Started(r) => StopCount(r) = 1
    /\ \A i \in DOMAIN log :
         log[i].ev \in {"stop", "write", "combine"} =>
            \A j \in (i + 1)..Len(log) :
               log[j].ev \in {"stop", "write", "combine"} => log[i].by = log[j].by

\* a second and a third... invocation ran after the one that stopped the recorders
C1_Witness ==
    /\ TeardownsRun >= 2
    /\ \E r \in AudNames : StopCount(r) = 1
    /\ StopCount("conversation_recorder") = 1
    /\ \E i \in DOMAIN log : log[i].ev = "write"

\* C2: a hangup_call_tool invocation runs the hangup flow only after it spoke the
\* fixed farewell with interruptions disabled and its playout wait returned: every
\* stop, write, mixdown or shutdown request made by a tool invocation is made
\* after that invocation's wait_for_playout.
FarewellSaid(t) == tool[t].said = <<[text |-> Farewell, allow_interruptions |-> FALSE]>>

C2_FarewellBeforeHangup ==
    /\ \A t \in ToolIds : HangupRan(t) => (FarewellSaid(t) /\ tool[t].waited)
    /\ \A t \in ToolIds : tool[t].waited => FarewellSaid(t)
    /\ \A i \in DOMAIN log :
         (log[i].ev \in TeardownEvs /\ log[i].by.kind = "tool")
            => (FarewellSaid(log[i].by.id) /\ tool[log[i].by.id].waited)

C2_Witness ==
    \E t \in ToolIds :
        /\ tool[t].pc = "done"
        /\ \E i, j \in DOMAIN log : /\ log[i].ev = "stop" /\ log[i].by = ToolId(t)
                                    /\ log[j].ev = "shutdown" /\ log[j].by = ToolId(t)

\* C3: within one hangup flow the transcript recorder is stopped first, then the
\* audio recorder(s), then (Variant B) the mixdown runs, and the job shutdown is
\* requested last; when shutdown is requested no recorder reference is set.
Rank(e) ==
    IF e.ev = "stop" THEN (IF e.rec = "conversation_recorder" THEN 1 ELSE 2)
    ELSE IF e.ev = "combine" THEN 3
    ELSE 4

IsStep(e) == e.ev \in {"stop", "combine", "shutdown"}

C3_HangupOrder ==
    /\ \A i \in DOMAIN log :
         IsStep(log[i]) =>
            \A j \in (i + 1)..Len(log) :
               (IsStep(log[j]) /\ log[i].by = log[j].by) => Rank(log[i]) <= Rank(log[j])
    /\ \A i \in DOMAIN log :
         log[i].ev = "shutdown" =>
            /\ \A r \in RecNames : ~ref[r]
            /\ \A r \in RecNames : Started(r) => \E j \in 1..(i - 1) : IsStop(log[j], r)

C3_Witness ==
    \E i, j, k, l \in DOMAIN log :
        /\ i < j /\ j < k /\ k < l
        /\ IsStop(log[i], "conversation_recorder")
        /\ IsStop(log[j], "agent_audio_recorder")
        /\ log[k].ev = "combine"
        /\ log[l].ev = "shutdown"
        /\ log[i].by = log[l].by

\* C4: (Variant B) the mixdown is invoked at most once per call, only when both
\* per-party WAV files exist on disk after their recorders were stopped; if a
\* party recorded no frames there is no call_recording file.
CallRecordingPath == Replace(aud["user_audio_recorder"].filepath, "user_audio_", "call_recording_")

C4_MixdownOnlyWhenBothExist ==
    /\ Cardinality({i \in DOMAIN log : log[i].ev = "combine"}) <= 1
    /\ \A i \in DOMAIN log :
         log[i].ev = "combine" =>
            \A r \in {"user_audio_recorder", "agent_audio_recorder"} :
               /\ Exists(files, aud[r].filepath)
               /\ \E j \in 1..(i - 1) : IsStop(log[j], r)
               /\ \E j \in 1..(i - 1) : /\ log[j].ev = "write"
                                        /\ log[j].path = aud[r].filepath
                                        /\ log[j].outcome # "fail_open"
    /\ (aud["user_audio_recorder"].frames = <<>> \/ aud["agent_audio_recorder"].frames = <<>>)
          => /\ ~Exists(files, CallRecordingPath)
             /\ \A i \in DOMAIN log : log[i].ev # "combine"

C4_Witness ==
    /\ TeardownsRun >= 2
    /\ \E i \in DOMAIN log : log[i].ev = "combine" /\ log[i].ok
    /\ Exists(files, CallRecordingPath)

\* C5: with no job context, hangup_call still stops and clears every active
\* recorder, requests no job shutdown and ends without an error.
C5_NoContextHangup ==
    \A t \in ToolIds :
        (HangupRan(t) /\ ~cfg.hasCtx) =>
            /\ tool[t].pc = "done"
            /\ ~err
            /\ \A r \in RecNames : ~ref[r] /\ (Started(r) => StopCount(r) = 1)
            /\ \A i \in DOMAIN log : log[i].ev # "shutdown"

C5_Witness ==
    /\ ~cfg.hasCtx
    /\ \E t \in ToolIds :
          /\ tool[t].pc = "done"
          /\ \E i \in DOMAIN log : IsStop(log[i], "conversation_recorder") /\ log[i].by = ToolId(t)
          /\ \E i \in DOMAIN log : IsStop(log[i], "audio_recorder") /\ log[i].by = ToolId(t)

\* C6: a failed write of the transcript, of an audio WAV or of the mixdown does
\* not propagate and does not stop the teardown: the recorders after it are
\* still stopped, every reference is cleared and, in a live job, the job
\* shutdown is still requested.
C6_WriteFailureAbsorbed ==
    /\ ~err
    /\ \A t \in ToolIds : tool[t].pc # "failed"
    /\ \A t \in ToolIds :
         HangupRan(t) =>
            /\ \A r \in RecNames : ~ref[r]
            /\ cfg.hasCtx => \E i \in DOMAIN log : log[i].ev = "shutdown" /\ log[i].by = ToolId(t)
    /\ shutdownCalls >= 1 => \A r \in RecNames : ~ref[r]
    /\ \A i \in DOMAIN log :
         (log[i].ev = "write" /\ log[i].path.prefix = "transcript_" /\ log[i].outcome # "ok")
            => \A r \in AudNames : Started(r) => \E j \in DOMAIN log : j > i /\ IsStop(log[j], r)

C6_Witness ==
    \E i, j, k \in DOMAIN log :
        /\ i < j /\ j < k
        /\ log[i].ev = "write" /\ log[i].path.prefix = "transcript_" /\ log[i].outcome # "ok"
        /\ log[j].ev = "write" /\ log[j].path.prefix = "user_audio_" /\ log[j].outcome # "ok"
        /\ log[k].ev = "shutdown"
        /\ log[i].by.kind = "tool" /\ log[k].by = log[i].by

\* ==================================================== claims, under SpecConv
\* The transcript the API calls made so far must have produced: start empties it
\* and activates the recorder, stop deactivates it, an add appends while the
\* recorder is active and the text is not blank.
UserMessage(e) == [role |-> "user", text |-> e.text, timestamp |-> e.t, language |-> e.language]
AgentMessage(e) == [role |-> "assistant", text |-> e.text, timestamp |-> e.t]

RECURSIVE Replay(_, _, _)
Replay(calls, active, acc) ==
    IF calls = <<>> THEN acc
    ELSE LET e == Head(calls)
             rest == Tail(calls)
         IN IF e.ev = "start" THEN Replay(rest, TRUE, <<>>)
            ELSE IF e.ev = "stop" THEN Replay(rest, FALSE, acc)
            ELSE IF e.ev = "add_user_message" /\ active /\ strip(e.text) # <<>>
            THEN Replay(rest, active, Append(acc, UserMessage(e)))
            ELSE IF e.ev = "add_agent_message" /\ active /\ strip(e.text) # <<>>
            THEN Replay(rest, active, Append(acc, AgentMessage(e)))
            ELSE Replay(rest, active, acc)

\* whether the calls made so far leave the recorder active
RECURSIVE ActiveAfter(_, _)
ActiveAfter(calls, active) ==
    IF calls = <<>> THEN active
    ELSE ActiveAfter(Tail(calls), IF Head(calls).ev = "start" THEN TRUE
                                  ELSE IF Head(calls).ev = "stop" THEN FALSE
                                  ELSE active)

\* C7: after any sequence of start, add_user_message, add_agent_message and stop,
\* the transcript holds an entry for a call only if the recorder was active at that
\* call and the text was not blank after trimming: no whitespace-only text, nothing
\* from before start or after stop.
C7_OnlyActiveNonBlank ==
    /\ \A i \in DOMAIN conv.transcript : strip(conv.transcript[i].text) # <<>>
    /\ conv.is_recording = ActiveAfter(log, FALSE)
    /\ \A i \in DOMAIN conv.transcript :
         \E j \in DOMAIN log :
            /\ log[j].ev \in {"add_user_message", "add_agent_message"}
            /\ log[j].t = conv.transcript[i].timestamp
            /\ log[j].text = conv.transcript[i].text
            /\ ActiveAfter(SubSeq(log, 1, j - 1), FALSE)

\* a blank text was added while active, and texts were added before start and
\* after stop, and an accepted message is in the transcript
C7_Witness ==
    /\ Len(conv.transcript) = 1
    /\ \E i, j, k \in DOMAIN log :
          /\ i < j /\ j < k
          /\ log[i].ev = "add_user_message" /\ strip(log[i].text) # <<>>
          /\ ~ActiveAfter(SubSeq(log, 1, i - 1), FALSE)
          /\ log[j].ev = "add_agent_message" /\ strip(log[j].text) = <<>>
          /\ ActiveAfter(SubSeq(log, 1, j - 1), FALSE)
          /\ log[k].ev = "add_user_message" /\ strip(log[k].text) # <<>>
          /\ ActiveAfter(SubSeq(log, 1, k - 1), FALSE)

\* C8: a stop whose write succeeds leaves a JSON file whose messages are exactly
\* the non-blank messages added since the last start, in the order added, each
\* with role, text and timestamp (and language for a user message); a stop with
\* no message added writes no file.
MessageKeys(m) ==
    IF m.role = "user" THEN {"role", "text", "timestamp", "language"}
    ELSE {"role", "text", "timestamp"}

LastEv == IF log = <<>> THEN "none" ELSE log[Len(log)].ev

C8_StopWritesTranscript ==
    /\ LastEv = "stop" => Replay(log, FALSE, <<>>) = <<>>
    /\ LastEv = "write" =>
         /\ log[Len(log) - 1].ev = "stop"
         /\ Replay(log, FALSE, <<>>) # <<>>
         /\ log[Len(log)].outcome = "ok" =>
              /\ Exists(files, conv.filepath)
              /\ files[conv.filepath].kind = "json"
              /\ files[conv.filepath].messages = Replay(log, FALSE, <<>>)
              /\ \A i \in DOMAIN files[conv.filepath].messages :
                    DOMAIN files[conv.filepath].messages[i] = MessageKeys(files[conv.filepath].messages[i])

\* a stop just wrote a file of two messages, one of each role, with a blank
\* add skipped between them
C8_Witness ==
    /\ LastEv = "write"
    /\ log[Len(log)].outcome = "ok"
    /\ Len(files[conv.filepath].messages) = 2
    /\ files[conv.filepath].messages[1].role = "assistant"
    /\ files[conv.filepath].messages[2].role = "user"
    /\ files[conv.filepath].messages[2].language = "fr"
    /\ \E j \in DOMAIN log : log[j].ev = "add_user_message" /\ strip(log[j].text) = <<>>

\* a stop with nothing added wrote nothing
C8_WitnessEmpty == LastEv = "stop" /\ files = <<>> /\ Len(log) >= 2

\* ============================================== claims, under Spec (hooks)
\* the transcript entry a forwarded hook event stands for
EntryOf(e) ==
    IF e.ev = "user_input_transcribed"
    THEN [role |-> "user", text |-> e.event.transcript, timestamp |-> e.t,
          language |-> e.event.language]
    ELSE [role |-> "assistant", text |-> e.event.text_content, timestamp |-> e.t]

Forwarded == SelectSeq(log, IsHookEvent)

\* C9: the transcript is the sequence of the events the two hooks forwarded, in
\* the order they were observed, both roles interleaved, none reordered and none
\* dropped as a duplicate.
C9_TranscriptInEventOrder ==
    /\ Len(conv.transcript) = Len(Forwarded)
    /\ \A i \in DOMAIN conv.transcript : conv.transcript[i] = EntryOf(Forwarded[i])

\* two identical assistant events were forwarded one after the other
C9_Witness ==
    /\ Len(conv.transcript) = 2
    /\ conv.transcript[1].role = "assistant"
    /\ conv.transcript[2].role = "assistant"
    /\ conv.transcript[1].text = conv.transcript[2].text

\* the two roles interleave: an assistant entry before a user entry
C9_WitnessInterleaved ==
    /\ Len(conv.transcript) = 2
    /\ conv.transcript[1].role = "assistant"
    /\ conv.transcript[2].role = "user"

\* ================================================ claims, under SpecThread
\* C10: with a producer thread in add_frame and another thread in stop, no frame
\* is appended to the buffer after stop has marked the recorder inactive and
\* flushed the buffer.
C10_NoAppendAfterStop ==
    \A i \in DOMAIN log : log[i].ev = "append" => ~(~log[i].active /\ log[i].flushed)

\* ==================================================== claims, under SpecRec
\* the frames a recorder holds after a sequence of API calls, by the API's
\* contract: start empties the buffer, a frame counts while the recorder is active
RECURSIVE Recorded(_, _, _)
Recorded(calls, active, acc) ==
    IF calls = <<>> THEN acc
    ELSE LET c == Head(calls)
         IN IF c.ev = "start" THEN Recorded(Tail(calls), TRUE, <<>>)
            ELSE IF c.ev = "stop" THEN Recorded(Tail(calls), FALSE, acc)
            ELSE IF c.ev = "add_frame" /\ active /\ c.frame # NoFrame
            THEN Recorded(Tail(calls), active, Append(acc, c.frame))
            ELSE Recorded(Tail(calls), active, acc)

RecordedBefore(i) == Recorded(SubSeq(log, 1, i - 1), FALSE, <<>>)

RECURSIVE ConcatData(_)
ConcatData(fr) ==
    IF fr = <<>> THEN <<>> ELSE ToBytes(Head(fr).data) \o ConcatData(Tail(fr))

\* the stop call at position i of the history attempted a write
Wrote(i) == i < Len(log) /\ log[i + 1].ev = "write"
\* the write of the stop call at position i is the latest event and succeeded
WroteLast(i) == Wrote(i) /\ i + 1 = Len(log) /\ log[i + 1].outcome = "ok"

\* C11: Variant A recorder: a stop writes a file exactly when frames were added
\* since the last start, and the file written is a 48000 Hz, 1 channel, 16-bit
\* WAV whose data is the concatenation of those frames in delivery order.
C11_WavIsConcatenation ==
    cfg.variant = "A" =>
        \A i \in DOMAIN log :
            log[i].ev = "stop" =>
                LET fr == RecordedBefore(i)
                IN /\ Wrote(i) <=> fr # <<>>
                   /\ WroteLast(i) =>
                        /\ Exists(files, log[i + 1].path)
                        /\ files[log[i + 1].path] =
                             [kind |-> "wav", nchannels |-> 1, sampwidth |-> 2,
                              framerate |-> 48000, data |-> ConcatData(fr)]

C11_Witness ==
    /\ cfg.variant = "A"
    /\ Len(log) = 5
    /\ log[1].ev = "start"
    /\ log[2].ev = "add_frame" /\ log[2].frame.data = <<-2, 3>>
    /\ log[3].ev = "add_frame" /\ log[3].frame.data = <<1>>
    /\ log[4].ev = "stop"
    /\ WroteLast(4)
    /\ files[log[5].path].data = <<254, 255, 3, 0, 1, 0>>

\* C12: Variant B recorder: the sample rate the recorder holds is that of the
\* first frame added since the last start (none before a frame is added, never
\* the fallback once a rate was observed), the WAV written carries that rate,
\* and a stop with no frames writes no file.
C12_RateOfFirstFrame ==
    cfg.variant = "B" =>
        /\ LET fr == Recorded(log, FALSE, <<>>)
           IN aud[RecName].sample_rate = IF fr = <<>> THEN NoRate ELSE fr[1].sample_rate
        /\ \A i \in DOMAIN log :
            log[i].ev = "stop" =>
                LET fr == RecordedBefore(i)
                IN /\ fr = <<>> => ~Wrote(i)
                   /\ WroteLast(i) =>
                        /\ Exists(files, log[i + 1].path)
                        /\ files[log[i + 1].path].framerate = fr[1].sample_rate

C12_Witness ==
    /\ cfg.variant = "B"
    /\ Len(log) = 5
    /\ log[2].ev = "add_frame" /\ log[2].frame.sample_rate = 8000
    /\ log[3].ev = "add_frame" /\ log[3].frame.sample_rate = 16000
    /\ WroteLast(4)
    /\ files[log[5].path].framerate = 8000

\* a start after frames were added: the rate is taken anew
C12_WitnessRestart ==
    /\ cfg.variant = "B"
    /\ Len(log) = 6
    /\ log[1].ev = "start"
    /\ log[2].ev = "add_frame" /\ log[2].frame.sample_rate = 8000
    /\ log[3].ev = "start"
    /\ log[4].ev = "add_frame" /\ log[4].frame.sample_rate = 16000
    /\ WroteLast(5)
    /\ files[log[6].path].framerate = 16000

\* ==================================================== claims, under SpecMix
MixReturnedTrue == mix.pc = "returned" /\ mix.result
InSamples(path) == FromBytes(files[path].data)
OutSamples == FromBytes(files[MixOutputPath].data)
\* floor(n * targetRate / r)
ResampledLength(path, targetRate) ==
    (Len(InSamples(path)) * targetRate) \div files[path].framerate

\* C13: the mixdown written has sample rate max(userRate, agentRate) and as
\* many samples as the larger of floor(n * targetRate / r) over the two inputs.
C13_MixdownRateAndLength ==
    MixReturnedTrue =>
        LET targetRate == Max(files[MixUserPath].framerate, files[MixAgentPath].framerate)
        IN /\ files[MixOutputPath].framerate = targetRate
           /\ Len(OutSamples) = Max(ResampledLength(MixUserPath, targetRate),
                                    ResampledLength(MixAgentPath, targetRate))

\* resampling takes place and the length is as stated
C13_WitnessAgrees ==
    /\ MixReturnedTrue
    /\ files[MixUserPath].framerate = 8000
    /\ files[MixAgentPath].framerate = 16000
    /\ Len(InSamples(MixUserPath)) = 2
    /\ Len(OutSamples) = 4

\* C14: every sample of the mixdown is clamp(floor((u + a) / 2), -32768, 32767)
\* of the two padded samples at its position: the largest q with 2 * q <= u + a.
C14_MixIsFloorAverage ==
    MixReturnedTrue =>
        /\ Len(OutSamples) = Len(mix.user_samples)
        /\ Len(OutSamples) = Len(mix.agent_samples)
        /\ \A i \in DOMAIN OutSamples :
             LET t == mix.user_samples[i] + mix.agent_samples[i]
                 o == OutSamples[i]
             IN IF t < 2 * (-32768) THEN o = -32768
                ELSE IF t >= 2 * 32767 + 2 THEN o = 32767
                ELSE 2 * o <= t /\ t < 2 * o + 2

\* a negative odd sum: u = -1 against the padding a = 0 gives -1
C14_Witness ==
    /\ MixReturnedTrue
    /\ \E i \in DOMAIN OutSamples :
         /\ mix.user_samples[i] = -1
         /\ mix.agent_samples[i] = 0
         /\ OutSamples[i] = -1
    /\ \E i \in DOMAIN OutSamples :
         /\ mix.user_samples[i] = 32767
         /\ mix.agent_samples[i] = -32768
         /\ OutSamples[i] = -1

\* p / q truncated to an integer (toward zero), q > 0
TruncDiv(p, q) == IF p >= 0 THEN p \div q ELSE -((-p) \div q)

\* output i (from 0) of a source s at rate r resampled to targetRate, as C29
\* gives it: with ratio = targetRate / r, floor(i / ratio) = floor(i * r / targetRate)
\* and the fraction of i / ratio is ((i * r) % targetRate) / targetRate
ClaimedSample(s, r, targetRate, i) ==
    IF (i * r) \div targetRate >= Len(s) - 1 THEN s[Len(s)]
    ELSE TruncDiv(s[(i * r) \div targetRate + 1] * (targetRate - ((i * r) % targetRate))
                  + s[(i * r) \div targetRate + 2] * ((i * r) % targetRate),
                  targetRate)

\* what C29 says of one input and its list after resampling and padding
ClaimedResampling(path, out, targetRate) ==
    IF files[path].framerate = targetRate
    THEN SubSeq(out, 1, Len(InSamples(path))) = InSamples(path)
    ELSE /\ Len(out) >= ResampledLength(path, targetRate)
         /\ \A k \in 1..Len(out) :
               IF k <= ResampledLength(path, targetRate)
               THEN /\ out[k] = ClaimedSample(InSamples(path), files[path].framerate,
                                              targetRate, k - 1)
                    /\ \E j \in DOMAIN InSamples(path) : InSamples(path)[j] <= out[k]
                    /\ \E j \in DOMAIN InSamples(path) : InSamples(path)[j] >= out[k]
               ELSE out[k] = 0

\* C29 as claimed: a source of n samples resampled by ratio = targetRate /
\* sourceRate gives floor(n * ratio) samples (the rest of the list is padding);
\* output i is the last source sample when floor(i / ratio) >= n - 1 and
\* otherwise the interpolation of the source samples floor(i / ratio) and
\* floor(i / ratio) + 1 truncated to an integer; with equal rates the sequence is
\* unchanged; every output sample lies between the smallest and the largest
\* source sample.
C29_ResamplerOutput ==
    MixReturnedTrue =>
        /\ ClaimedResampling(MixUserPath, mix.user_samples, files[MixOutputPath].framerate)
        /\ ClaimedResampling(MixAgentPath, mix.agent_samples, files[MixOutputPath].framerate)

\* C29, its last part alone: every sample of a resampled list, before the
\* padding, lies between the smallest and the largest sample of its source.
C29_OutputWithinSourceRange ==
    MixReturnedTrue =>
        \A k \in DOMAIN mix.user_samples :
            (/\ files[MixUserPath].framerate # files[MixOutputPath].framerate
             /\ k <= ResampledLength(MixUserPath, files[MixOutputPath].framerate) - 1) =>
                /\ \E j \in DOMAIN InSamples(MixUserPath) : InSamples(MixUserPath)[j] <= mix.user_samples[k]
                /\ \E j \in DOMAIN InSamples(MixUserPath) : InSamples(MixUserPath)[j] >= mix.user_samples[k]

\* C15: combine_audio_files never raises; it returns False when an input is
\* missing or unreadable or the write fails, and True only with the output
\* WAV written.
C15_CombineNeverRaises ==
    /\ mix.pc # "raised"
    /\ mix.pc = "returned" =>
         /\ mix.result => (mix.w = "ok" /\ Exists(files, MixOutputPath)
                           /\ files[MixOutputPath].kind = "wav")
         /\ (~Exists(files, MixUserPath) \/ ~Exists(files, MixAgentPath)
             \/ files[MixUserPath].kind # "wav" \/ mix.w # "ok") => ~mix.result

\* a missing input, and a failed write, each returned False
C15_Witness ==
    /\ mix.pc = "returned"
    /\ ~mix.result
    /\ ~Exists(files, MixUserPath)
    /\ Exists(files, MixAgentPath)

C15_WitnessWriteFailed ==
    /\ mix.pc = "returned"
    /\ ~mix.result
    /\ mix.w = "fail_partial"
    /\ Exists(files, MixOutputPath)
    /\ files[MixUserPath].kind = "wav"

\* ================================================ claims, under SpecWeather
WxAnswer(field) == field \in DOMAIN wx /\ wx[field].kind = "response"
WxQueried(provider) == \E i \in DOMAIN wx.requests : wx.requests[i].to = provider
Contains(s, sub) ==
    \E i \in 1..(Len(s) - Len(sub) + 1) : SubSeq(s, i, i + Len(sub) - 1) = sub

\* the geocoder answered without a place to use
GeoMiss ==
    /\ WxAnswer("geo_response")
    /\ ~(wx.geo_response.status = 200 /\ wx.geo_response.data # <<>>)

\* the call to the weather provider was made and did not succeed: the connection
\* failed, or the answer has a status other than 200
WeatherCallFailed ==
    /\ "weather_response" \in DOMAIN wx
    /\ \/ wx.weather_response.kind = "error"
       \/ wx.weather_response.status # 200

\* C16: get_weather returns the "couldn't find the location" apology naming the
\* location whenever the geocoder yields no match, without querying the weather
\* provider, and the "couldn't fetch weather data" apology naming the location
\* whenever the weather provider call does not succeed.
C16_ApologyOnFailure ==
    /\ GeoMiss =>
          /\ wx.pc = "returned"
          /\ wx.result = "Sorry, I couldn't find the location '" \o wx.location
                         \o "'. Please try a different city or place name."
          /\ ~WxQueried("open-meteo")
    /\ WeatherCallFailed =>
          /\ wx.pc = "returned"
          /\ wx.result = "Sorry, I couldn't fetch weather data for " \o wx.location
                         \o ". Please try again later."

\* C17: no exception escapes get_weather, whatever the geocoder and the weather
\* provider bring back (connection error, status other than 200, empty payload,
\* daily arrays of unequal length).
C17_NoExceptionEscapes == wx.pc # "raised"

\* the "daily" object of the weather provider's answer, and its entries: a block
\* of n entries has "time" and the four requested arrays, each of length n
WxDaily ==
    IF WxAnswer("weather_response") /\ wx.weather_response.status = 200
    THEN Get(wx.weather_response.data, "daily", EmptyDict)
    ELSE EmptyDict
DailyKeys == {"time", "temperature_2m_max", "temperature_2m_min",
              "precipitation_probability_max", "weather_code"}
HasEntries(daily, n) ==
    /\ DOMAIN daily = DailyKeys
    /\ \A k \in DailyKeys : Len(daily[k]) = n

\* C18: given a daily block of at least 2 entries, the text returned by
\* get_weather ends with a "Tomorrow's forecast" clause built from the second
\* entry of each daily array; given a block of fewer than 2 entries the text has
\* no such clause.
C18_TomorrowClause ==
    /\ (\E n \in 2..forecast_days : HasEntries(WxDaily, n)) =>
          /\ wx.pc = "returned"
          /\ LET clause == " Tomorrow's forecast: high of "
                           \o ToString(WxDaily.temperature_2m_max[2])
                           \o " degrees, low of "
                           \o ToString(WxDaily.temperature_2m_min[2])
                           \o " degrees, " \o WEATHER_CODES[WxDaily.weather_code[2]] \o ", "
                           \o ToString(WxDaily.precipitation_probability_max[2])
                           \o "% chance of precipitation."
                 n == Len(wx.result)
             IN /\ n > Len(clause)
                /\ SubSeq(wx.result, n - Len(clause) + 1, n) = clause
                /\ ~Contains(SubSeq(wx.result, 1, n - Len(clause)), "Tomorrow's forecast")
    /\ (\E n \in 0..1 : HasEntries(WxDaily, n)) =>
          /\ wx.pc = "returned"
          /\ ~Contains(wx.result, "Tomorrow's forecast")

C18_Witness ==
    /\ wx.pc = "returned"
    /\ HasEntries(WxDaily, forecast_days)
    /\ Contains(wx.result, "Tomorrow's forecast: high of 22 degrees, low of 12 degrees, slight rain, 60% chance")

C18_WitnessNoClause ==
    /\ wx.pc = "returned"
    /\ HasEntries(WxDaily, 1)
    /\ Contains(wx.result, "Current weather in Paris: 18 degrees Celsius")

\* ==================================================== claims, under SpecSip
Printed(line) == \E i \in DOMAIN sip.out : sip.out[i] = line
Last(s) == s[Len(s)]
CreationOrder == <<"create_sip_inbound_trunk", "create_sip_outbound_trunk",
                   "create_sip_dispatch_rule">>
SetupComplete == sip.command = "setup" /\ sip.pc = "exited"

\* C19: the "setup" command issues the creation calls in the order inbound trunk,
\* outbound trunk, dispatch rule and no other call; when it completes it has
\* issued exactly these three, the dispatch rule's trunk ids are exactly the id
\* the control plane returned for the new inbound trunk, and the three ids
\* returned are printed.
C19_SetupThreeCreations ==
    sip.command = "setup" =>
       /\ Len(sip.calls) <= 3
       /\ \A i \in DOMAIN sip.calls : sip.calls[i].op = CreationOrder[i]
       /\ SetupComplete =>
             /\ Len(sip.calls) = 3
             /\ sip.calls[3].rule.trunk_ids = <<Last(sip.plane.inbound).sip_trunk_id>>
             /\ Last(sip.plane.rules).trunk_ids = <<Last(sip.plane.inbound).sip_trunk_id>>
             /\ Printed("Inbound Trunk ID: " \o Last(sip.plane.inbound).sip_trunk_id)
             /\ Printed("Outbound Trunk ID: " \o Last(sip.plane.outbound).sip_trunk_id)
             /\ Printed("Dispatch Rule ID: " \o Last(sip.plane.rules).sip_dispatch_rule_id)

C19_Witness ==
    /\ SetupComplete
    /\ Len(sip.plane.inbound) = 2
    /\ Last(sip.plane.inbound).sip_trunk_id = "ST_b"
    /\ Last(sip.plane.outbound).sip_trunk_id = "ST_a"
    /\ sip.calls[3].rule.trunk_ids = <<"ST_b">>

C20_WitnessRefused ==
    /\ sip.command = "delete-all"
    /\ sip.pc = "exited"
    /\ sip.answers = <<"no">>
    /\ sip.calls = <<>>

DeleteAllDone == sip.command = "delete-all" /\ sip.pc = "exited"
ListedTrunks ==
    /\ \E i \in DOMAIN sip.calls : sip.calls[i].op = "list_sip_inbound_trunk"
    /\ \E i \in DOMAIN sip.calls : sip.calls[i].op = "list_sip_outbound_trunk"
Deferred == Printed("Deletion not implemented - use lk.exe CLI to delete individual items")

\* C21 as claimed: whatever the operator answers, a "delete-all" run that ends
\* has listed the existing resources and printed the message that defers the
\* deletion to an external tool.
C21_DeleteAllListsForEveryAnswer == DeleteAllDone => ListedTrunks /\ Deferred

\* C21 as amended: a "delete-all" run that ends has listed the trunks (every
\* trunk of the control plane is printed) and printed the deferring message when
\* the answer is "yes" in any letter case; for any other answer it has issued no
\* call and printed neither a listing nor the message.
C21_DeleteAllListsOnYes ==
    DeleteAllDone =>
       IF sip.answers[1] \in {"yes", "YES", "Yes"}
       THEN /\ sip.calls = <<[op |-> "list_sip_inbound_trunk"],
                             [op |-> "list_sip_outbound_trunk"]>>
            /\ \A i \in DOMAIN sip.plane.inbound :
                  Printed("  ID: " \o sip.plane.inbound[i].sip_trunk_id)
            /\ Deferred
       ELSE /\ sip.calls = <<>>
            /\ sip.out = <<>>

C21_Witness ==
    /\ DeleteAllDone
    /\ sip.answers = <<"Yes">>
    /\ Printed("  ID: ST_old")
    /\ Deferred

\* C22 as claimed: after every provisioning operation, whether its API call
\* returned or raised, every client that was opened has been closed.
C22_NoClientLeftOpen == sip.closed = sip.opened

\* ================================== claims, under Spec (the call's setup)
ConsoleMode == ~cfg.hasCtx \/ cfg.roomFake
PartyRecorders == {"user_audio_recorder", "agent_audio_recorder"}
AudioPrefixes == {"user_audio_", "agent_audio_", "call_recording_"}

\* C23: in Variant B, once start_recording has run: in a console session (no
\* job context, or a room named FAKE_...) no per-party audio recorder exists or
\* is referenced and no user_audio, agent_audio or call_recording file is
\* written, while the transcript recorder is started; in any other session both
\* per-party recorders have been created with their own paths and, until a
\* teardown is invoked, both are referenced and recording.
C23_ConsoleTranscriptOnly ==
    (cfg.variant = "B" /\ phase # "INIT") =>
        /\ conv.filepath.prefix = "transcript_"
        /\ Invocations = 0 => ref["conversation_recorder"] /\ conv.is_recording
        /\ IF ConsoleMode
           THEN /\ \A n \in PartyRecorders : ~ref[n] /\ aud[n] = NoAudio
                /\ \A p \in DOMAIN files : p.prefix \notin AudioPrefixes
                /\ tasks = {}
           ELSE /\ aud["user_audio_recorder"].filepath = Path("user_audio_", conv.filepath.ts, ".wav")
                /\ aud["agent_audio_recorder"].filepath = Path("agent_audio_", conv.filepath.ts, ".wav")
                /\ Invocations = 0 =>
                      \A n \in PartyRecorders : ref[n] /\ aud[n].is_recording

\* a console session that was torn down and left its transcript only
C23_Witness ==
    /\ cfg.variant = "B"
    /\ cfg.roomFake
    /\ cfg.hasCtx
    /\ shutdownCalls > 0
    /\ DOMAIN files = {conv.filepath}

\* a room session that was torn down and left a per-party audio file
C23_WitnessRoom ==
    /\ cfg.variant = "B"
    /\ ~ConsoleMode
    /\ Exists(files, aud["user_audio_recorder"].filepath)

\* the events the hooks passed to the transcript recorder are the hook entries
\* of the history
PassesFilter(x) ==
    \/ x.ev = "user_input_transcribed" /\ x.event.is_final
    \/ /\ x.ev = "conversation_item_added"
       /\ x.event.role = "assistant"
       /\ x.event.text_content # <<>>

\* C24: every event a hook forwarded to the transcript recorder is a final user
\* transcription or an assistant item with a non-empty text, and no step taken
\* while the transcript recorder reference is cleared forwards an event.
C24_HooksForwardFiltered ==
    /\ [](\A i \in DOMAIN log : IsHookEvent(log[i]) => PassesFilter(log[i]))
    /\ [][~ref["conversation_recorder"] => NumEvents' = NumEvents]_vars

\* both hooks forwarded an event, then the reference was cleared by a teardown
C24_Witness ==
    /\ ~ref["conversation_recorder"]
    /\ phase = "ACTIVE"
    /\ \E i, j \in DOMAIN log :
          /\ log[i].ev = "user_input_transcribed"
          /\ log[j].ev = "conversation_item_added"

Pos(step) == CHOOSE i \in DOMAIN setup : setup[i] = step
BeforeSessionStart ==
    {"add_shutdown_callback", "room.on track_subscribed",
     "session.on user_input_transcribed", "session.on conversation_item_added"}
    \cup (IF cfg.variant = "A"
          THEN {"conversation_recorder.start", "audio_recorder.start"}
          ELSE {"start_recording", "room.on local_track_published"})
PhaseOrder ==
    {<<"INIT", "RECORDING_STARTED">>, <<"RECORDING_STARTED", "SESSION_STARTED">>,
     <<"SESSION_STARTED", "ACTIVE">>}

\* C27: in both variants the phase only moves along INIT, RECORDING_STARTED,
\* SESSION_STARTED, ACTIVE; nothing of my_agent has run in INIT; whenever the
\* session has been started on the platform, the start of the recorders and the
\* registration of the track, shutdown and transcript hooks all come before
\* session.start in my_agent's order; and the greeting is issued only after
\* session.start has returned, as the last step.
C27_SetupOrder ==
    /\ [][phase' # phase => <<phase, phase'>> \in PhaseOrder]_vars
    /\ [](/\ phase = "INIT" <=> setup = <<>>
          /\ phase # "INIT" =>
                /\ Registered("session.start")
                /\ \A s \in BeforeSessionStart :
                      Registered(s) /\ Pos(s) < Pos("session.start")
                /\ ref["conversation_recorder"] \/ Invocations > 0
          /\ Registered("session.generate_reply") <=> phase = "ACTIVE"
          /\ Registered("session.generate_reply") =>
                /\ Pos("session.start") < Pos("session.generate_reply")
                /\ Pos("session.generate_reply") = Len(setup))

\* Variant B has greeted: every step of its entry point is behind it
C27_Witness ==
    /\ cfg.variant = "B"
    /\ phase = "ACTIVE"
    /\ Len(setup) = 8
    /\ setup[7] = "session.start"
    /\ setup[8] = "session.generate_reply"

\* the recorder a process-wide name refers to
Referent(n) == IF n = "conversation_recorder" THEN conv ELSE aud[n]

\* C30: between the steps of the handlers, every recorder reference that is set
\* refers to a recorder that is recording.
C30_ReferencedIsRecording ==
    \A n \in RecNames : ref[n] => Referent(n).is_recording

\* in Variant B the agent's recorder was stopped and its reference cleared
\* after it had captured a frame
C30_Witness ==
    /\ cfg.variant = "B"
    /\ ~ref["agent_audio_recorder"]
    /\ ~aud["agent_audio_recorder"].is_recording
    /\ aud["agent_audio_recorder"].frames # <<>>

\* in Variant A both recorders are referenced and recording while a hangup
\* tool is between its steps
C30_WitnessActive ==
    /\ cfg.variant = "A"
    /\ ref["conversation_recorder"] /\ conv.is_recording
    /\ ref["audio_recorder"] /\ aud["audio_recorder"].is_recording
    /\ \E t \in ToolIds : tool[t].pc = "played"

\* ================================================= claims, under SpecExport
ExporterRan == exp.pc # "idle"
ReportPath == Path("session_report_", exp.timestamp, ".json")

\* C25 as claimed: when on_session_end has run with a report obtained and
\* nothing wrong with the write of the report itself, the full report is in
\* session_report_<timestamp>.json, whatever the report says of a platform
\* recording and whatever became of the copy; and no exception left the exporter.
C25_ReportAlwaysWritten ==
    ExporterRan =>
        /\ exp.pc = "returned"
        /\ (exp.made /\ exp.w = "ok") =>
              /\ Exists(files, ReportPath)
              /\ files[ReportPath] = [kind |-> "json", data |-> exp.report_dict]

\* the files the call itself has written (the platform's temporary file is not
\* an artifact of the call)
Artifacts == DOMAIN files \ {PlatformRecording}

\* C26 as claimed: every artifact of the call carries the timestamp derived at
\* the call's begin, the one in the transcript's name.
C26_SharedTimestamp ==
    phase # "INIT" => \A p \in Artifacts : p.ts = conv.filepath.ts

\* ================================================== claims, under SpecNoise
\* C28: in both variants every participant was given the telephony-tuned
\* profile exactly when its kind is SIP, and the standard profile otherwise.
C28_NoiseCancellationByKind ==
    \A i \in DOMAIN nc :
        /\ nc[i].profile \in {"BVCTelephony", "BVC"}
        /\ nc[i].profile = "BVCTelephony" <=> nc[i].kind = "PARTICIPANT_KIND_SIP"

\* a caller over SIP and an agent were linked in a Variant B session
C28_Witness ==
    /\ cfg.variant = "B"
    /\ \E i, j \in DOMAIN nc :
          /\ nc[i].kind = "PARTICIPANT_KIND_SIP" /\ nc[i].profile = "BVCTelephony"
          /\ nc[j].kind = "PARTICIPANT_KIND_AGENT" /\ nc[j].profile = "BVC"

\* a caller over SIP was linked in a Variant A session
C28_WitnessA ==
    /\ cfg.variant = "A"
    /\ \E i \in DOMAIN nc : nc[i].kind = "PARTICIPANT_KIND_SIP"
\* ============== frames delivered around the teardown, counted (SpecCapture)
MaxDeliveries == 2

IsDelivery(e) == e.ev = "frame"
Deliveries == Cardinality({i \in DOMAIN log : IsDelivery(log[i])})

\* a teardown has run and left every recorder global at None
ReferencesCleared ==
    /\ TeardownsRun >= 1
    /\ \A n \in RecNames : ~ref[n]

\* one iteration of a capture task's `async for event in stream`, entered in
\* the history with whether the teardown had cleared the globals by then
deliver_frame(name, frame) ==
    /\ Running
    /\ name \in tasks
    /\ Deliveries < MaxDeliveries
    /\ aud' = capture_audio(name, frame)
    /\ log' = Append(log, [ev |-> "frame", rec |-> name, cleared |-> ReferencesCleared])
    /\ UNCHANGED <<cfg, phase, ref, conv, files, tool, shutdownCalls, tasks,
                   now, err, setup, otherVars>>

NextCapture ==
    \/ my_agent_A
    \/ my_agent_B
    \/ session_start
    \/ generate_reply
    \/ \E k \in TrackKinds : on_track_subscribed(k)
    \/ \E k \in TrackKinds : on_local_track_published(k)
    \/ \E n \in AudNames, f \in Frames : deliver_frame(n, f)
    \/ \E t \in ToolIds : tool_say(t)
    \/ \E t \in ToolIds : tool_wait_for_playout(t)
    \/ \E t \in ToolIds : tool_hangup(t)
    \/ \E t \in ToolIds : tool_return(t)
    \/ shutdown_callback

SpecCapture == Init /\ [][NextCapture]_vars

\* ================================================ claims, under SpecCapture
\* C31: once a teardown has cleared the recorder references, a frame delivered
\* by a capture task changes no recorder (neither its buffer nor its flag nor
\* the transcript) and leaves every file as it was.
C31_LateFramesHaveNoEffect ==
    [][(ReferencesCleared /\ Deliveries' = Deliveries + 1)
         => (aud' = aud /\ conv' = conv /\ files' = files /\ ref' = ref)]_vars

\* a capture task of a started audio recorder delivered a frame after the
\* teardown that stopped the recorder and wrote its file
C31_Witness ==
    \E i \in DOMAIN log :
        /\ IsDelivery(log[i]) /\ log[i].cleared
        /\ Started(log[i].rec)
        /\ \E j \in 1..(i - 1) : log[j].ev = "write"

\* ============================================= claims, under SpecThreadFair
\* a thread is inside the `with self._lock:` block of its call
InAddFrame == thr.producer \in {"append", "release"}
InStop == thr.stopper \in {"flush", "release"}

\* C32: the lock is held only by a thread inside its `with` block, so it is
\* free again after every path of add_frame and of stop; and every add_frame
\* call and every stop call that has started eventually returns.
C32_LockReleasedCallsReturn ==
    /\ [](lock = (IF InAddFrame THEN "producer" ELSE IF InStop THEN "stopper" ELSE "free"))
    /\ (thr.producer # "idle") ~> (thr.producer = "idle")
    /\ (thr.stopper = "acquire") ~> (thr.stopper = "done" /\ lock # "stopper")

\* both calls overlapped (the producer passed its test before stop and took
\* the lock after stop had flushed), the write failed, and both have returned
C32_Witness ==
    /\ thr.producer = "idle"
    /\ thr.stopper = "done"
    /\ lock = "free"
    /\ \E i, j \in DOMAIN log :
          /\ log[i].ev = "write" /\ log[i].outcome # "ok"
          /\ log[j].ev = "append" /\ log[j].flushed

\* stop found the buffer empty while the producer was waiting for the lock,
\* and both have returned
C32_WitnessEmpty ==
    /\ thr.producer = "idle"
    /\ thr.stopper = "done"
    /\ lock = "free"
    /\ \A i \in DOMAIN log : log[i].ev # "write"
    /\ \E j \in DOMAIN log : log[j].ev = "append" /\ log[j].flushed

\* ===================================== claims, under SpecSip: setup failures
IsPrefix(a, b) == Len(a) <= Len(b) /\ SubSeq(b, 1, Len(a)) = a
Requested(op) == \E i \in DOMAIN sip.calls : sip.calls[i].op = op

\* the trunk or rule that a step of this run created is in the control plane
InPlane(kind, resource) == \E i \in DOMAIN sip.plane[kind] : sip.plane[kind][i] = resource

\* C33: during "setup" a creation is requested only after every earlier step
\* created its resource (the dispatch rule only with both new trunks in the
\* control plane), nothing is ever deleted, and whatever a step created is
\* still in the control plane after a later step failed.
C33_SetupStepsAfterSuccessNoRollback ==
    /\ [](sip.command = "setup" =>
            /\ Requested("create_sip_outbound_trunk") => InPlane("inbound", sip.inbound)
            /\ Requested("create_sip_dispatch_rule") =>
                  /\ InPlane("inbound", sip.inbound)
                  /\ InPlane("outbound", sip.outbound)
            /\ \A i \in DOMAIN sip.calls : sip.calls[i].op \in {CreationOrder[k] : k \in DOMAIN CreationOrder}
            /\ sip.pc = "raised" =>
                  /\ sip.inbound # NoTrunk => InPlane("inbound", sip.inbound)
                  /\ sip.outbound # NoTrunk => InPlane("outbound", sip.outbound))
    /\ [][sip.command = "setup" =>
            /\ IsPrefix(sip.plane.inbound, sip'.plane.inbound)
            /\ IsPrefix(sip.plane.outbound, sip'.plane.outbound)
            /\ IsPrefix(sip.plane.rules, sip'.plane.rules)]_vars

\* the dispatch rule could not be created: both new trunks stay in the control
\* plane, next to what an earlier setup left there, and there is no new rule
C33_Witness ==
    /\ sip.command = "setup"
    /\ sip.pc = "raised"
    /\ Len(sip.calls) = 3
    /\ Len(sip.plane.inbound) = 2 /\ Last(sip.plane.inbound) = sip.inbound
    /\ Len(sip.plane.outbound) = 1 /\ Last(sip.plane.outbound) = sip.outbound
    /\ Len(sip.plane.rules) = 1
    /\ sip.rule = NoRule

\* the outbound trunk could not be created: the inbound trunk stays, and the
\* dispatch rule was never requested
C33_WitnessOutbound ==
    /\ sip.command = "setup"
    /\ sip.pc = "raised"
    /\ Len(sip.calls) = 2
    /\ InPlane("inbound", sip.inbound)
    /\ sip.outbound = NoTrunk

\* ================= the call with its tool coroutines scheduled (SpecHangup)
\* the event loop resumes a coroutine whose await has completed: a tool
\* invocation whose playout wait returned goes on into hangup_call, and one
\* awaiting the result of ctx.shutdown() returns once the job has shut down.
\* When the model asks for the tool, and when the job runs its shutdown
\* callback, is left open.
ToolFairness ==
    \A t \in ToolIds : WF_vars(tool_hangup(t)) /\ WF_vars(tool_return(t))

\* the call without its transcript hooks, which neither the tool nor the
\* teardown waits for
NextHangup ==
    \/ my_agent_A
    \/ my_agent_B
    \/ session_start
    \/ generate_reply
    \/ \E k \in TrackKinds : on_track_subscribed(k)
    \/ \E k \in TrackKinds : on_local_track_published(k)
    \/ \E n \in AudNames, f \in Frames : capture_frame(n, f)
    \/ \E t \in ToolIds : tool_say(t)
    \/ \E t \in ToolIds : tool_wait_for_playout(t)
    \/ \E t \in ToolIds : tool_hangup(t)
    \/ \E t \in ToolIds : tool_return(t)
    \/ shutdown_callback

\* a live job: get_job_context() returns the job's context
InitLive == Init /\ cfg.hasCtx

SpecHangup == InitLive /\ [][NextHangup]_vars /\ ToolFairness

\* ================================================= claims, under SpecHangup
ShutdownRequestedBy(t) == \E i \in DOMAIN log : log[i].ev = "shutdown" /\ log[i].by = ToolId(t)

\* TERMINATED for the invocation t: no recorder global is set, hangup_call
\* requested the job shutdown and its await returned
Terminated(t) ==
    /\ \A r \in RecNames : ~ref[r]
    /\ ShutdownRequestedBy(t)
    /\ tool[t].pc = "done"

\* C34: in a live job, a hangup_call_tool invocation whose farewell playout
\* has completed leads to TERMINATED: every recorder reference cleared, the
\* job shutdown requested by that invocation and its await returned.
C34_HangupReachesTerminated ==
    \A t \in ToolIds : (tool[t].pc = "played") ~> Terminated(t)

\* a tool invocation of a live Variant B job ended the call: it said the
\* farewell, waited, stopped the started recorders and came back from the
\* shutdown it requested
C34_Witness ==
    /\ cfg.hasCtx
    /\ cfg.variant = "B"
    /\ \E t \in ToolIds :
          /\ Terminated(t)
          /\ FarewellSaid(t) /\ tool[t].waited
          /\ \E i \in DOMAIN log : IsStop(log[i], "user_audio_recorder") /\ log[i].by = ToolId(t)

\* the same in Variant A, after the job's shutdown callback had already run
C34_WitnessAfterCallback ==
    /\ cfg.hasCtx
    /\ cfg.variant = "A"
    /\ shutdownCalls >= 1
    /\ \E t \in ToolIds :
          /\ Terminated(t)
          /\ \E i \in DOMAIN log : IsStop(log[i], "audio_recorder") /\ log[i].by = CallbackId(1)
====
